---- MODULE Spec2Model ----
(***************************************************************************)
(* The particle emitter of www/src/vendors/particle-emitter.js as a state  *)
(* machine: one Emitter object, the Particle objects it has constructed,   *)
(* and one action per public operation of the emitter.                     *)
(*                                                                         *)
(* Time is counted in integer ticks (ages, lifetimes, frequency, delta).   *)
(* Probabilities and Math.random() draws are counted in hundredths: One is *)
(* the number 1.0.                                                         *)
(***************************************************************************)
EXTENDS Integers, Sequences, FiniteSets, TLC

\* ------------------------------------------------------------------ bounds
\* Particle objects constructed over the emitter's life (new Particle).
MaxAlloc == 3
\* update(delta) is called with delta in -1 .. MaxDelta.
MaxDelta == 2
\* Math.random() draws that one call may choose freely; later draws repeat them.
MaxDraws == 2
\* The time since the last init is recorded up to MaxElapsed ticks.
MaxElapsed == 3
\* The total time two emitters of one configuration are driven through.
MaxTotal == 3
\* Calls of a debounced function, and the time they are followed through.
MaxCalls == 3
MaxTime == 5
\* Spawn slots one update call is followed through; a call that needs more
\* is in a loop that does not end.
MaxSlots == 8
\* Keyframes of a property list.
MaxKeyframes == 3
\* The largest alpha and scale of a legacy configuration.
MaxLegacyValue == 2
\* The viewport's width and height in half stage widths and heights.
MaxViewport == 7
\* The most entries of config.behaviors.
MaxBehaviors == 4
\* The most points of a PolygonalChain given as one list of points.
MaxPoints == 3
\* Anim instances the effect of AnimComp creates over the component's life.
MaxInstances == 3

\* ------------------------------------------------------------- constants
\* The scene: PIXEL_SCALE, and the tileDims and tileSize AnimComp is given.
PIXEL_SCALE == 1
tileDims == [width |-> 16, height |-> 14]
tileSize == 18

\* null: the empty link of the linked lists.
Null == 0
\* The number 1.0 of spawnChance and of Math.random()'s range, in hundredths.
One == 100
\* Default of maxParticles.
DefaultMaxParticles == 1000
\* The values BehaviorOrder gives.
OrderSpawn == 0
OrderNormal == 2
OrderLate == 5

PIDs == 1..MaxAlloc
Deltas == (0 - 1)..MaxDelta
\* Math.random() returns a number in [0, 1): here 0.0 or 0.5.
RandVals == {0, 50}
RandSeqs == [1..MaxDraws -> RandVals]
NoRand == [i \in 1..MaxDraws |-> 0]

Min(a, b) == IF a < b THEN a ELSE b
Abs(a) == IF a < 0 THEN 0 - a ELSE a

\* A time so long (1e17 seconds, say) that a double holding it is not
\* changed by adding a frequency, a delta or an age of the sizes used here.
Huge == 1000000

\* a + b on doubles: exact on the small numbers, absorbed by a huge one.
Plus(a, b) ==
  IF Abs(a) >= Huge THEN a ELSE IF Abs(b) >= Huge THEN b ELSE a + b

\* Statements run one after the other: F of the value v has by then.
Then(v, F(_)) == CHOOSE r \in {F(u) : u \in {v}} : TRUE

\* A null object reference and a Point.
NullRef == [isNull |-> TRUE]
Point(x) == [x |-> x]

PositionParticle == [type |-> "PositionParticle"]

\* ------------------------------------------------------------- the scene
\* A scale is the quotient of two whole numbers of pixels.
Quotient(num, den) == [num |-> num, den |-> den]
Floor(q) == q.num \div q.den
Max(a, b) == IF a > b THEN a ELSE b

\* coverScale(srcW, srcH, boundsW, boundsH)
\* (ratioSrc < ratioBounds holds against the Infinity of a boundsH of 0).
coverScale(srcW, srcH, boundsW, boundsH) ==
  IF \/ boundsH = 0 /\ boundsW > 0
     \/ boundsH # 0 /\ srcW * boundsH < boundsW * srcH
  THEN Quotient(boundsW, srcW)
  ELSE Quotient(boundsH, srcH)

\* containScale(srcW, srcH, boundsW, boundsH): ratioSrc >= ratioBounds
\* compared by cross-multiplication; with boundsH 0 ratioBounds is
\* Infinity or NaN and the comparison is false.
containScale(srcW, srcH, boundsW, boundsH) ==
  IF boundsH # 0 /\ srcW * boundsH >= boundsW * srcH
  THEN Quotient(boundsW, srcW)
  ELSE Quotient(boundsH, srcH)

\* createAnim({tileDims, tileSize}) as AnimComp is given them, before any
\* resize: the canvas has no CSS size (0).
stageDims == [width |-> tileDims.width * tileSize, height |-> tileDims.height * tileSize]
NewStage ==
  [ stageDims |-> stageDims, stageScale |-> 1, styleWidth |-> 0, styleHeight |-> 0,
    startCalled |-> FALSE, resized |-> FALSE, viewport |-> [width |-> 0, height |-> 0] ]

\* The statements of onStageResize and onResize that set stageScale.
stageScaleFor(dims, width, height) ==
  LET scale == containScale(dims.width, dims.height, width, height)
      whole == Max(1, Floor(scale))
  IN  Max(whole - (whole % PIXEL_SCALE), PIXEL_SCALE)

\* onStageResize(width, height)
onStageResize(st, width, height) ==
  LET scale == stageScaleFor(st.stageDims, width, height)
  IN  [st EXCEPT !.stageScale = scale,
                 !.styleWidth = st.stageDims.width * scale,
                 !.styleHeight = st.stageDims.height * scale,
                 !.startCalled = TRUE,
                 !.resized = TRUE,
                 !.viewport = [width |-> width, height |-> height]]

\* onResize() of the first version of the scene, with the window's
\* innerWidth and innerHeight.
onResize(st, innerWidth, innerHeight) ==
  LET scale == stageScaleFor(st.stageDims, innerWidth, innerHeight)
  IN  [st EXCEPT !.stageScale = scale,
                 !.styleWidth = st.stageDims.width * scale,
                 !.styleHeight = st.stageDims.height * scale,
                 !.resized = TRUE,
                 !.viewport = [width |-> innerWidth, height |-> innerHeight]]

\* -------------------------------------------------------------- AnimComp
\* The awaits of anim.init in order; the promise init returns is pending at
\* each of them, then fulfilled, or rejected when the awaited promise is.
InitAwaits == <<"app.init", "Assets.load", "fetch", "response.json">>
InstanceIds == 1..MaxInstances

\* An anim instance createAnim has not returned yet.
NewInstance == [init |-> "none", at |-> 0, cleanup |-> "none", destroyCalls |-> 0,
                early |-> FALSE]

\* The component before its first effect: anim.current null, isLoading false.
NewComp == [anim |-> 0, effect |-> 0, isLoading |-> FALSE, created |-> 0,
            inst |-> [i \in InstanceIds |-> NewInstance]]

\* The promise of init is settled.
Settled(inst) == inst.init \in {"fulfilled", "rejected"}

\* await initResult in delayedDestroy: it goes on once the promise is settled.
InitAwaitedAtOnce(inst) == TRUE
InitAwaited(inst) == Settled(inst)

\* The effect: createAnim, setIsLoading(true), anim.current = _anim, and
\* _anim.init(...), which runs up to its first await.
runEffect(c) ==
  LET i == c.created + 1
  IN  [c EXCEPT !.created = i, !.anim = i, !.effect = i, !.isLoading = TRUE,
                !.inst[i].init = "pending", !.inst[i].at = 1]

\* The promise init awaits is fulfilled: init runs on to its next await, or
\* to its end, where it attaches the canvas, observes the parent and calls
\* onLoaded, which is setIsLoading(false).
resumeInit(c, i) ==
  IF c.inst[i].at < Len(InitAwaits)
  THEN [c EXCEPT !.inst[i].at = @ + 1]
  ELSE [c EXCEPT !.inst[i].init = "fulfilled", !.inst[i].at = 0, !.isLoading = FALSE]

\* The promise init awaits is rejected: init throws and its promise rejects.
rejectInit(c, i) == [c EXCEPT !.inst[i].init = "rejected"]

\* The effect's cleanup: delayedDestroy() runs up to its await.
cleanupEffect(c) ==
  [c EXCEPT !.anim = 0, !.effect = 0, !.inst[c.effect].cleanup = "awaiting"]

\* delayedDestroy after its await: _anim.destroy(), or the rejection of
\* initResult thrown out of the await.
delayedDestroy(c, i) ==
  IF c.inst[i].init = "rejected"
  THEN [c EXCEPT !.inst[i].cleanup = "threw"]
  ELSE [c EXCEPT !.inst[i].cleanup = "done", !.inst[i].destroyCalls = @ + 1,
                 !.inst[i].early = (c.inst[i].init # "fulfilled")]

\* ------------------------------------------------------- PolygonalChain
\* The data of a chain: none, a list of points, or a list of chains.
NoData == [kind |-> "undefined", points |-> <<>>, chains |-> <<>>]
PointList(points) == [kind |-> "points", points |-> points, chains |-> <<>>]
ChainList(chains) == [kind |-> "chains", points |-> <<>>, chains |-> chains]
XY(x, y) == [x |-> x, y |-> y]

\* Math.sqrt on the squares that occur here, which are squares of whole
\* numbers.
Sqrt(n) == CHOOSE k \in 0..n : k * k <= n /\ n < (k + 1) * (k + 1)

\* The segments that connect the points of one chain.
SegmentsOf(points) ==
  [j \in 1..(IF Len(points) = 0 THEN 0 ELSE Len(points) - 1) |->
     [p1 |-> points[j], p2 |-> points[j + 1], l |-> 0]]

RECURSIVE SegmentsOfChains(_)
SegmentsOfChains(chains) ==
  IF chains = <<>> THEN <<>>
  ELSE SegmentsOfChains(SubSeq(chains, 1, Len(chains) - 1))
         \o SegmentsOf(chains[Len(chains)])

SegLength(seg) ==
  Sqrt((seg.p2.x - seg.p1.x) * (seg.p2.x - seg.p1.x)
       + (seg.p2.y - seg.p1.y) * (seg.p2.y - seg.p1.y))

RECURSIVE CountingLength(_, _)
CountingLength(segments, i) ==
  IF i = 0 THEN 0 ELSE CountingLength(segments, i - 1) + SegLength(segments[i])

\* The fields of a PolygonalChain before init.
EmptyChain == [segments |-> <<>>, countingLengths |-> <<>>, totalLength |-> 0]

\* PolygonalChain.init(data) on a chain: the segments of data are pushed
\* after those the chain has, and the loop over all the segments adds the
\* length of each to totalLength and pushes the total on countingLengths,
\* neither of which is reset.
initChain(shape, data) ==
  LET pushed ==
        IF data.kind = "undefined" \/ (data.kind = "points" /\ data.points = <<>>)
           \/ (data.kind = "chains" /\ data.chains = <<>>)
        THEN <<[p1 |-> XY(0, 0), p2 |-> XY(0, 0), l |-> 0]>>
        ELSE IF data.kind = "chains" THEN SegmentsOfChains(data.chains)
        ELSE SegmentsOf(data.points)
      segments == shape.segments \o pushed
  IN  [segments |-> [i \in DOMAIN segments |->
                       [segments[i] EXCEPT !.l = SegLength(segments[i])]],
       countingLengths |->
         shape.countingLengths
           \o [i \in DOMAIN segments |->
                 shape.totalLength + CountingLength(segments, i)],
       totalLength |-> shape.totalLength + CountingLength(segments, Len(segments))]

\* new PolygonalChain(data): init(data) on the empty fields.
PolygonalChain(data) == initChain(EmptyChain, data)

\* What getRandPos leaves in out: the segment chosen, lerp after its
\* division and out.x, out.y, as quotients.
Placed(seg, lerp, x, y) == [raises |-> FALSE, seg |-> seg, lerp |-> lerp, x |-> x, y |-> y]
NotPlaced == [raises |-> TRUE, seg |-> 0, lerp |-> Quotient(0, 1),
              x |-> Quotient(0, 1), y |-> Quotient(0, 1)]

\* The loop over countingLengths: the first i with rand < countingLengths[i],
\* or 0 when there is none and chosenSeg stays undefined. rand is
\* r * totalLength, r in hundredths.
RECURSIVE ChosenSeg(_, _, _)
ChosenSeg(shape, r, i) ==
  IF i > Len(shape.countingLengths) THEN 0
  ELSE IF r * shape.totalLength < shape.countingLengths[i] * One THEN i
  ELSE ChosenSeg(shape, r, i + 1)

\* getRandPos(out) with Math.random() = r: reading chosenSeg.l of undefined
\* raises, which chosenSeg is when the loop finds no i and when it finds
\* one that segments does not have.
getRandPos(shape, r) ==
  LET i == IF Len(shape.segments) = 1 THEN 1 ELSE ChosenSeg(shape, r, 1)
  IN  IF i = 0 \/ i > Len(shape.segments) THEN NotPlaced
      ELSE LET seg == shape.segments[i]
               before == IF i = 1 THEN 0 ELSE shape.countingLengths[i - 1]
               lerp == Quotient(r * shape.totalLength - before * One,
                                One * (IF seg.l = 0 THEN 1 ELSE seg.l))
           IN  Placed(i, lerp,
                      Quotient(seg.p1.x * lerp.den + lerp.num * (seg.p2.x - seg.p1.x),
                               lerp.den),
                      Quotient(seg.p1.y * lerp.den + lerp.num * (seg.p2.y - seg.p1.y),
                               lerp.den))

\* -------------------------------------------------------- property lists
\* A keyframe time and an interpolation fraction are in hundredths, as
\* probabilities are. A list of nodes is the sequence of the nodes reached
\* from its first by next.
PropertyNode(value, time) == [value |-> value, time |-> time]

\* PropertyNode.createList(data) with numbers for values and no ease: the
\* first node, given as the nodes reached from it and its isStepped. The
\* nodes after the first are left out when there are two keyframes of one
\* value.
createList(data) ==
  IF "list" \in DOMAIN data
  THEN LET array == data.list
       IN  [nodes |-> IF Len(array) > 2
                         \/ (Len(array) = 2 /\ array[2].value # array[1].value)
                      THEN [i \in 1..Len(array) |->
                              PropertyNode(array[i].value, array[i].time)]
                      ELSE <<PropertyNode(array[1].value, array[1].time)>>,
            isStepped |-> "isStepped" \in DOMAIN data /\ data.isStepped]
  ELSE [nodes |-> IF data.end # data.start
                  THEN <<PropertyNode(data.start, 0), PropertyNode(data.end, One)>>
                  ELSE <<PropertyNode(data.start, 0)>>,
        isStepped |-> FALSE]

\* new PropertyList(false)
NewPropertyList == [first |-> [nodes |-> <<>>, isStepped |-> FALSE],
                    interpolate |-> "null"]

\* PropertyList.reset(first) of a list of numbers.
reset(first) ==
  [first |-> first,
   interpolate |-> IF Len(first.nodes) >= 2 /\ first.nodes[2].time >= One
                   THEN "intValueSimple"
                   ELSE IF first.isStepped THEN "intValueStepped"
                   ELSE "intValueComplex"]

\* What a call gives: the value returned, or that it raised.
Returns(value) == [raises |-> FALSE, value |-> value]
Raises == [raises |-> TRUE, value |-> 0]

intValueSimple(list, lerp) ==
  LET first == list.first.nodes[1]
      next == list.first.nodes[2]
  IN  Returns(Plus((Plus(next.value, 0 - first.value) * lerp) \div One, first.value))

\* The loop of intValueComplex from the node at index i on: the index of
\* the segment's first node, or 0 when next is null and next.time raises.
RECURSIVE SegmentOf(_, _, _)
SegmentOf(nodes, lerp, i) ==
  IF i + 1 > Len(nodes) THEN 0
  ELSE IF lerp > nodes[i + 1].time THEN SegmentOf(nodes, lerp, i + 1)
  ELSE i

\* intValueComplex without the conversion of lerp to the segment's range.
intValueComplexUnscaled(list, lerp) ==
  LET nodes == list.first.nodes
      i == SegmentOf(nodes, lerp, 1)
  IN  IF i = 0 THEN Raises
      ELSE LET current == nodes[i]
               next == nodes[i + 1]
           IN  Returns(Plus((Plus(next.value, 0 - current.value) * lerp) \div One,
                            current.value))

intValueComplex(list, lerp) ==
  LET nodes == list.first.nodes
      i == SegmentOf(nodes, lerp, 1)
  IN  IF i = 0 THEN Raises
      ELSE LET current == nodes[i]
               next == nodes[i + 1]
           IN  Returns(Plus((Plus(next.value, 0 - current.value) * (lerp - current.time))
                              \div (next.time - current.time),
                            current.value))

\* The loop of intValueStepped from the node at index i on.
RECURSIVE StepOf(_, _, _)
StepOf(nodes, lerp, i) ==
  IF i + 1 <= Len(nodes) /\ lerp > nodes[i + 1].time
  THEN StepOf(nodes, lerp, i + 1)
  ELSE i

intValueStepped(list, lerp) ==
  Returns(list.first.nodes[StepOf(list.first.nodes, lerp, 1)].value)

\* list.interpolate(lerp); before reset interpolate is null and the call raises.
interpolate(list, lerp) ==
  IF list.interpolate = "intValueSimple" THEN intValueSimple(list, lerp)
  ELSE IF list.interpolate = "intValueStepped" THEN intValueStepped(list, lerp)
  ELSE IF list.interpolate = "intValueComplex" THEN intValueComplex(list, lerp)
  ELSE Raises

VARIABLES
  knownBehaviors,  \* the types registered in Emitter.knownBehaviors
  debouncer,     \* what debounce(callback, delay) returned: the delay, the
                 \* variable timer of its closure, the timers pending, the
                 \* time, the calls made and the invocations of callback
  twins,         \* two emitters given the same configuration, each with the
                 \* time its update calls add up to
  comp,          \* the AnimComp component: its anim ref, the instance of the
                 \* effect in force, isLoading, and every anim instance's
                 \* init promise, cleanup and destroy calls
  chain,         \* a PolygonalChain, the data it was made from and the last
                 \* getRandPos on it
  stage,         \* the scene: its dimensions, the canvas CSS size, stageScale,
                 \* startCalled and the viewport of the last resize
  upgraded,      \* the last upgradeConfig call: its arguments and what it gave
  propertyList,  \* a PropertyList and the data it was last reset with
  interpolated,  \* the last interpolate call on it since its reset: its
                 \* fraction, what it gave and the data of the reset
  emitter,    \* the fields of the Emitter object
  particle,   \* particle[i]: the fields of the i-th constructed Particle
  allocated,  \* how many Particle objects have been constructed
  op,         \* the last operation called, its argument and how it ended
  log,        \* the spawns and recycles of the last operation, in order
  calls,      \* what the last operation called on each particle, in order:
              \* Particle.init, the steps of initBehaviors, updateParticle
              \* and recycle
  fed,        \* fed[x][i]: the sum of the deltaSec that updateParticle of the
              \* i-th update-behavior was given for particle x since x was
              \* spawned; empty for a particle that is not active
  cbCalls,    \* invocations of the completion callback registered last
  hist,       \* the time since the last init, while only update(delta > 0) was called
  misused     \* kill() was called on a particle that was not active

emitterVars == <<emitter, particle, allocated, op, log, calls, fed, cbCalls, hist, misused>>
listVars == <<propertyList, interpolated>>
hostVars == <<comp, twins, debouncer, knownBehaviors>>
vars == <<hostVars, chain, stage, upgraded, listVars, emitterVars>>

\* What an operation on the emitter, on the property list, on a legacy
\* configuration, on the scene leaves alone.
apartFromEmitter == <<hostVars, chain, stage, upgraded, listVars>>
apartFromList == <<hostVars, chain, stage, upgraded, emitterVars>>
apartFromUpgrade == <<hostVars, chain, stage, listVars, emitterVars>>
apartFromStage == <<hostVars, chain, upgraded, listVars, emitterVars>>
apartFromChain == <<hostVars, stage, upgraded, listVars, emitterVars>>
apartFromComp == <<twins, debouncer, knownBehaviors, chain, stage, upgraded, listVars, emitterVars>>
apartFromTwins == <<comp, debouncer, knownBehaviors, chain, stage, upgraded, listVars, emitterVars>>
apartFromDebouncer == <<comp, twins, knownBehaviors, chain, stage, upgraded, listVars, emitterVars>>

\* ------------------------------------------------------------- behaviors
\* The types of the classes the library registers when it loads: the keys
\* of Emitter.knownBehaviors before the application registers any.
LibraryBehaviors ==
  {"moveAcceleration", "alpha", "alphaStatic", "animatedRandom", "animatedSingle",
   "blendMode", "spawnBurst", "color", "colorStatic", "textureOrdered", "movePath",
   "spawnPoint", "textureRandom", "rotation", "rotationStatic", "noRotation",
   "scale", "scaleStatic", "spawnShape", "textureSingle", "moveSpeed",
   "moveSpeedStatic"}

\* The types of two classes an application registers: no class of the
\* library signals death from updateParticle or defines recycleParticle.
\*   class Reaper { constructor() { this.order = BehaviorOrder.Normal; }
\*                  initParticles() {}
\*                  updateParticle(particle) { return particle.age >= 1; } }
\*   Reaper.type = 'reaper';
\*   class Trail { constructor() { this.order = BehaviorOrder.Normal; }
\*                 initParticles() {}
\*                 updateParticle() {}
\*                 recycleParticle() {} }
\*   Trail.type = 'trail';
ApplicationBehaviors == {"reaper", "trail"}

\* Emitter.registerBehavior(constructor), type being constructor.type.
registerBehavior(known, type) == known \cup {type}

\* The order each constructor assigns.
SpawnTypes == {"spawnBurst", "spawnPoint", "spawnShape"}
LateTypes == {"moveAcceleration", "movePath", "moveSpeed", "moveSpeedStatic"}
OrderOf(type) ==
  IF type \in SpawnTypes THEN OrderSpawn
  ELSE IF type \in LateTypes THEN OrderLate
  ELSE IF type = "noRotation" THEN OrderLate + 1
  ELSE OrderNormal

\* The classes that define updateParticle, and recycleParticle.
UpdateTypes ==
  {"moveAcceleration", "alpha", "animatedRandom", "animatedSingle", "color",
   "movePath", "rotation", "scale", "moveSpeed", "moveSpeedStatic", "reaper", "trail"}
RecycleTypes == {"trail"}

\* The classes whose constructor makes a PropertyList with
\* PropertyNode.createList(config[property]).
ListTypes == {"alpha", "color", "scale", "moveSpeed", "movePath"}
ListProperty(type) ==
  IF type \in {"moveSpeed", "movePath"} THEN "speed" ELSE type

\* ShapeSpawnBehavior.shapes after the four registerShape calls.
shapes == {"polygonalChain", "rect", "torus", "circle"}

\* ----------------------------------------------------------- parsePath
\* A string is the sequence of its characters. MATH_FUNCS in the order of
\* the array, which is the order WHITELISTER tries the names in.
MATH_FUNCS ==
  << <<"E">>, <<"L", "N", "2">>, <<"L", "N", "1", "0">>,
    <<"L", "O", "G", "2", "E">>, <<"L", "O", "G", "1", "0", "E">>, <<"P", "I">>,
    <<"S", "Q", "R", "T", "1", "_", "2">>, <<"S", "Q", "R", "T", "2">>,
    <<"a", "b", "s">>, <<"a", "c", "o", "s">>, <<"a", "c", "o", "s", "h">>,
    <<"a", "s", "i", "n">>, <<"a", "s", "i", "n", "h">>, <<"a", "t", "a", "n">>,
    <<"a", "t", "a", "n", "h">>, <<"a", "t", "a", "n", "2">>,
    <<"c", "b", "r", "t">>, <<"c", "e", "i", "l">>, <<"c", "o", "s">>,
    <<"c", "o", "s", "h">>, <<"e", "x", "p">>, <<"e", "x", "p", "m", "1">>,
    <<"f", "l", "o", "o", "r">>, <<"f", "r", "o", "u", "n", "d">>,
    <<"h", "y", "p", "o", "t">>, <<"l", "o", "g">>, <<"l", "o", "g", "1", "p">>,
    <<"l", "o", "g", "1", "0">>, <<"l", "o", "g", "2">>, <<"m", "a", "x">>,
    <<"m", "i", "n">>, <<"p", "o", "w">>, <<"r", "a", "n", "d", "o", "m">>,
    <<"r", "o", "u", "n", "d">>, <<"s", "i", "g", "n">>, <<"s", "i", "n">>,
    <<"s", "i", "n", "h">>, <<"s", "q", "r", "t">>, <<"t", "a", "n">>,
    <<"t", "a", "n", "h">> >>

\* The character class WHITELISTER starts with.
Digits == {"0", "1", "2", "3", "4", "5", "6", "7", "8", "9"}
Whitelisted == Digits \cup {".", "*", "-", "+", "/", "(", ")", "x", " ", ","}

\* The first name of MATH_FUNCS that s holds at index i, as its index in
\* MATH_FUNCS, or 0.
NameAt(s, i) ==
  LET fits == {n \in 1..Len(MATH_FUNCS) :
                 /\ i + Len(MATH_FUNCS[n]) - 1 <= Len(s)
                 /\ SubSeq(s, i, i + Len(MATH_FUNCS[n]) - 1) = MATH_FUNCS[n]}
  IN  IF fits = {} THEN 0 ELSE CHOOSE n \in fits : \A m \in fits : n <= m

\* pathString.match(WHITELISTER) from index i on, with "Math." put before
\* the matches that are names of MATH_FUNCS: the matches are looked for
\* from left to right, a character of the class before a name, and what
\* matches nothing is passed over.
RECURSIVE Matches(_, _)
Matches(s, i) ==
  IF i > Len(s) THEN <<>>
  ELSE IF s[i] \in Whitelisted THEN <<(<<s[i]>>)>> \o Matches(s, i + 1)
  ELSE IF NameAt(s, i) = 0 THEN Matches(s, i + 1)
  ELSE <<(<<"M", "a", "t", "h", ".">> \o MATH_FUNCS[NameAt(s, i)])>>
         \o Matches(s, i + Len(MATH_FUNCS[NameAt(s, i)]))

\* matches.join('')
RECURSIVE Join(_)
Join(matches) ==
  IF matches = <<>> THEN <<>> ELSE Head(matches) \o Join(Tail(matches))

\* new Function('x', `return ${body};`) parses body as the expression of a
\* return statement of sloppy code, the way V8 does. The characters body
\* can hold are those of the class, letters, digits and "_"; past its end
\* comes the ";" of the template. An index of 0 stands for a SyntaxError.
Letters ==
  {"a", "b", "c", "d", "e", "f", "g", "h", "i", "j", "k", "l", "m", "n", "o", "p",
   "q", "r", "s", "t", "u", "v", "w", "x", "y", "z", "A", "B", "C", "D", "E", "F",
   "G", "H", "I", "J", "K", "L", "M", "N", "O", "P", "Q", "R", "S", "T", "U", "V",
   "W", "X", "Y", "Z", "_"}
IdParts == Letters \cup Digits
Ch(t, i) == IF i \in 1..Len(t) THEN t[i] ELSE ";"

\* The index of the next token from i on: white space and comments are
\* passed over; a line comment takes the rest of the line, the ";" with
\* it, and a comment that is not closed is an error.
RECURSIVE Skip(_, _)
Skip(t, i) ==
  IF i = 0 THEN 0
  ELSE IF i > Len(t) THEN Len(t) + 1
  ELSE IF t[i] = " " THEN Skip(t, i + 1)
  ELSE IF t[i] = "/" /\ Ch(t, i + 1) = "/" THEN Len(t) + 1
  ELSE IF t[i] = "/" /\ Ch(t, i + 1) = "*"
  THEN LET ends == {j \in (i + 2)..(Len(t) - 1) : t[j] = "*" /\ t[j + 1] = "/"}
       IN  IF ends = {} THEN 0
           ELSE Skip(t, (CHOOSE j \in ends : \A k \in ends : j <= k) + 2)
  ELSE i

\* The token at index i: a punctuator by the longest match, or the kind
\* of what starts there.
Token(t, i) ==
  LET c == Ch(t, i)
  IN  IF c = "*" THEN (IF Ch(t, i + 1) = "*" THEN "**" ELSE "*")
      ELSE IF c = "+" THEN (IF Ch(t, i + 1) = "+" THEN "++" ELSE "+")
      ELSE IF c = "-" THEN (IF Ch(t, i + 1) = "-" THEN "--" ELSE "-")
      ELSE IF c = "."
      THEN (IF Ch(t, i + 1) \in Digits THEN "number"
            ELSE IF Ch(t, i + 1) = "." /\ Ch(t, i + 2) = "." THEN "..."
            ELSE ".")
      ELSE IF c \in {"/", ",", "(", ")"} THEN c
      ELSE IF c \in Digits THEN "number"
      ELSE IF c \in Letters THEN "identifier"
      ELSE "end"

\* The index after the characters of the set from i on.
RunEnd(t, i, set) ==
  CHOOSE j \in i..(Len(t) + 1) :
    /\ \A k \in i..(j - 1) : t[k] \in set
    /\ Ch(t, j) \notin set

\* The index after the numeric literal at i: a decimal literal, a hex
\* literal, or a literal with a leading zero, which is octal and takes no
\* fraction unless it holds an 8 or a 9. An identifier character right
\* after the literal is an error.
NumberEnd(t, i) ==
  LET whole == RunEnd(t, i, Digits)
      fraction(j) == IF Ch(t, j) = "." THEN RunEnd(t, j + 1, Digits) ELSE j
      end == IF t[i] = "." THEN RunEnd(t, i + 1, Digits)
             ELSE IF t[i] = "0" /\ Ch(t, i + 1) \in {"x", "X"}
             THEN (IF Ch(t, i + 2) \in Digits \cup {"a", "b", "c", "d", "e", "f",
                                                   "A", "B", "C", "D", "E", "F"}
                   THEN RunEnd(t, i + 2, Digits \cup {"a", "b", "c", "d", "e", "f",
                                                      "A", "B", "C", "D", "E", "F"})
                   ELSE 0)
             ELSE IF t[i] = "0" /\ Ch(t, i + 1) \in Digits
                     /\ \A k \in i..(whole - 1) : t[k] \notin {"8", "9"}
             THEN whole
             ELSE fraction(whole)
  IN  IF end = 0 \/ Ch(t, end) \in IdParts THEN 0 ELSE end

\* The pattern of a regular expression literal is valid: its parentheses
\* match and each "*" and "+" follows an atom.
RECURSIVE PatternValid(_, _, _, _)
PatternValid(b, k, depth, atom) ==
  IF k > Len(b) THEN depth = 0
  ELSE IF b[k] = "(" THEN PatternValid(b, k + 1, depth + 1, FALSE)
  ELSE IF b[k] = ")" THEN depth > 0 /\ PatternValid(b, k + 1, depth - 1, TRUE)
  ELSE IF b[k] \in {"*", "+"} THEN atom /\ PatternValid(b, k + 1, depth, FALSE)
  ELSE PatternValid(b, k + 1, depth, TRUE)

\* The index after the regular expression literal whose "/" is at i: it
\* ends at the next "/", and no character here is a flag.
RegExpEnd(t, i) ==
  LET closes == {j \in (i + 1)..Len(t) : t[j] = "/"}
      j == CHOOSE c \in closes : \A k \in closes : c <= k
  IN  IF closes = {} THEN 0
      ELSE IF ~PatternValid(SubSeq(t, i + 1, j - 1), 1, 0, FALSE) THEN 0
      ELSE IF Ch(t, j + 1) \in IdParts THEN 0
      ELSE j + 1

\* What parsing an expression gives: the index of the token after it (0:
\* SyntaxError), whether "++" and "--" take it as their operand (an
\* identifier, a property, a call, or one of these in parentheses), and
\* whether it starts with a unary "+" or "-", which "**" does not take as
\* its left operand.
Parsed(pos, ref, unary) == [pos |-> pos, ref |-> ref, unary |-> unary]
SyntaxError == Parsed(0, FALSE, FALSE)
Value(pos) == IF pos = 0 THEN SyntaxError ELSE Parsed(pos, FALSE, FALSE)

RECURSIVE Expression(_, _)
RECURSIVE AssignmentExpression(_, _)
RECURSIVE Arguments(_, _)

\* Primary expressions: x or another identifier, a number, a regular
\* expression, an expression in parentheses.
PrimaryExpression(t, i) ==
  IF Token(t, i) = "identifier"
  THEN Parsed(Skip(t, RunEnd(t, i, IdParts)), TRUE, FALSE)
  ELSE IF Token(t, i) = "number" THEN Value(Skip(t, NumberEnd(t, i)))
  ELSE IF Token(t, i) = "/" THEN Value(Skip(t, RegExpEnd(t, i)))
  ELSE IF Token(t, i) = "("
  THEN Then(Expression(t, Skip(t, i + 1)),
            LAMBDA e : IF e.pos # 0 /\ Ch(t, e.pos) = ")"
                       THEN Parsed(Skip(t, e.pos + 1), e.ref, FALSE)
                       ELSE SyntaxError)
  ELSE SyntaxError

\* The properties and calls that follow a primary expression.
RECURSIVE MemberOrCall(_, _)
MemberOrCall(t, r) ==
  IF r.pos = 0 THEN SyntaxError
  ELSE IF Token(t, r.pos) = "."
  THEN Then(Skip(t, r.pos + 1),
            LAMBDA j : IF j # 0 /\ Token(t, j) = "identifier"
                       THEN MemberOrCall(t, Parsed(Skip(t, RunEnd(t, j, IdParts)),
                                                   TRUE, FALSE))
                       ELSE SyntaxError)
  ELSE IF Token(t, r.pos) = "("
  THEN Then(Arguments(t, Skip(t, r.pos + 1)),
            LAMBDA j : IF j = 0 THEN SyntaxError
                       ELSE MemberOrCall(t, Parsed(j, TRUE, FALSE)))
  ELSE r

LeftHandSideExpression(t, i) == MemberOrCall(t, PrimaryExpression(t, i))

RECURSIVE UnaryExpression(_, _)
UpdateExpression(t, i) ==
  IF Token(t, i) \in {"++", "--"}
  THEN Then(UnaryExpression(t, Skip(t, i + 2)),
            LAMBDA u : IF u.pos # 0 /\ u.ref THEN Value(u.pos) ELSE SyntaxError)
  ELSE Then(LeftHandSideExpression(t, i),
            LAMBDA l : IF l.pos # 0 /\ Token(t, l.pos) \in {"++", "--"}
                       THEN (IF l.ref THEN Value(Skip(t, l.pos + 2)) ELSE SyntaxError)
                       ELSE l)

UnaryExpression(t, i) ==
  IF i = 0 THEN SyntaxError
  ELSE IF Token(t, i) \in {"+", "-"}
  THEN Then(UnaryExpression(t, Skip(t, i + 1)),
            LAMBDA u : IF u.pos = 0 THEN SyntaxError ELSE Parsed(u.pos, FALSE, TRUE))
  ELSE UpdateExpression(t, i)

RECURSIVE ExponentiationExpression(_, _)
ExponentiationExpression(t, i) ==
  Then(UnaryExpression(t, i),
       LAMBDA u : IF u.pos # 0 /\ Token(t, u.pos) = "**"
                  THEN (IF u.unary THEN SyntaxError
                        ELSE Value(ExponentiationExpression(t, Skip(t, u.pos + 2)).pos))
                  ELSE u)

\* A chain of binary operators of one level: operand is the next level.
RECURSIVE MultiplicativeRest(_, _)
MultiplicativeRest(t, r) ==
  IF r.pos # 0 /\ Token(t, r.pos) \in {"*", "/"}
  THEN MultiplicativeRest(t, Value(ExponentiationExpression(t, Skip(t, r.pos + 1)).pos))
  ELSE r

MultiplicativeExpression(t, i) ==
  Then(ExponentiationExpression(t, i), LAMBDA r : MultiplicativeRest(t, r))

RECURSIVE AdditiveRest(_, _)
AdditiveRest(t, r) ==
  IF r.pos # 0 /\ Token(t, r.pos) \in {"+", "-"}
  THEN Then(MultiplicativeExpression(t, Skip(t, r.pos + 1)),
            LAMBDA m : AdditiveRest(t, Value(m.pos)))
  ELSE r

AdditiveExpression(t, i) ==
  Then(MultiplicativeExpression(t, i), LAMBDA r : AdditiveRest(t, r))

\* No operator of the levels between the additive one and the comma can be
\* written with the characters of body.
AssignmentExpression(t, i) == AdditiveExpression(t, i)

RECURSIVE ExpressionRest(_, _)
ExpressionRest(t, r) ==
  IF r.pos # 0 /\ Token(t, r.pos) = ","
  THEN Then(AssignmentExpression(t, Skip(t, r.pos + 1)),
            LAMBDA a : ExpressionRest(t, Value(a.pos)))
  ELSE r

Expression(t, i) ==
  Then(AssignmentExpression(t, i), LAMBDA r : ExpressionRest(t, r))

\* The arguments of a call from the token after its "(" on: the index
\* after its ")". An argument may be spread, and the last may be followed
\* by a comma.
Arguments(t, i) ==
  IF i = 0 THEN 0
  ELSE IF Token(t, i) = ")" THEN Skip(t, i + 1)
  ELSE Then(AssignmentExpression(t, IF Token(t, i) = "..." THEN Skip(t, i + 3) ELSE i),
            LAMBDA a : IF a.pos = 0 THEN 0
                       ELSE IF Token(t, a.pos) = ")" THEN Skip(t, a.pos + 1)
                       ELSE IF Token(t, a.pos) = "," THEN Arguments(t, Skip(t, a.pos + 1))
                       ELSE 0)

\* new Function('x', `return ${body};`) returns a function: body is empty
\* or an expression.
IsFunctionBody(body) ==
  Then(Skip(body, 1),
       LAMBDA i : /\ i # 0
                  /\ (i = Len(body) + 1 \/ Expression(body, i).pos = Len(body) + 1))

\* parsePath(pathString): "raises" when match finds nothing (matches is
\* null) or new Function rejects the joined matches, else "function".
parsePath(pathString) ==
  LET matches == Matches(pathString, 1)
  IN  IF matches = <<>> THEN "raises"
      ELSE IF IsFunctionBody(Join(matches)) THEN "function"
      ELSE "raises"

\* What the PathBehavior constructor leaves in this.path.
PathOf(config) ==
  IF "path" \in DOMAIN config /\ config.path # <<>>
  THEN (IF parsePath(config.path) = "raises" THEN "null" ELSE "function")
  ELSE "identity"

\* The constructor that takes any shape type.
ConstructorRaisesNever(data) == FALSE

\* PropertyNode.createList(data) raises: data is undefined, or data.list
\* is empty and array[0] is destructured.
createListRaises(config, property) ==
  \/ property \notin DOMAIN config
  \/ "list" \in DOMAIN config[property] /\ config[property].list = <<>>

\* new ShapeClass(config.data) raises: Rectangle and Torus read fields of
\* config.data, PolygonalChain takes undefined for an empty chain.
ShapeClassRaises(config) ==
  config.type \in {"rect", "torus", "circle"} /\ "data" \notin DOMAIN config

\* new constructor(data.config) raises. Without data.config every
\* constructor but that of PointSpawnBehavior, which takes no argument,
\* reads a property of undefined. With it:
\*   ShapeSpawnBehavior throws for a type that is not in shapes, and
\*     raises what new ShapeClass raises;
\*   the classes with a PropertyList raise what createList raises;
\*   RandomAnimatedTextureBehavior reads config.anims.length, and for each
\*     anim getTextures(anim.textures) reads textures.length;
\*   SingleAnimatedTextureBehavior reads config.anim.textures and
\*     getTextures its length;
\*   StaticColorBehavior calls config.color.charAt, which only a string has;
\*   OrderedTextureBehavior and RandomTextureBehavior call
\*     config.textures.map;
\*   the others only copy properties of config.
\* The elements of a textures array are names of textures or textures,
\* which getTextures takes as they are.
ConstructorRaises(data) ==
  IF "config" \notin DOMAIN data
  THEN data.type \in LibraryBehaviors \ {"spawnPoint"}
  ELSE
    LET config == data.config
    IN  IF data.type = "spawnShape"
        THEN config.type \notin shapes \/ ShapeClassRaises(config)
        ELSE IF data.type \in ListTypes
        THEN createListRaises(config, ListProperty(data.type))
        ELSE IF data.type = "animatedRandom"
        THEN \/ "anims" \notin DOMAIN config
             \/ \E i \in 1..Len(config.anims) :
                  "textures" \notin DOMAIN config.anims[i]
        ELSE IF data.type = "animatedSingle"
        THEN "anim" \notin DOMAIN config \/ "textures" \notin DOMAIN config.anim
        ELSE IF data.type = "colorStatic"
        THEN "color" \notin DOMAIN config \/ config.color.type # "string"
        ELSE IF data.type \in {"textureOrdered", "textureRandom"}
        THEN "textures" \notin DOMAIN config
        ELSE FALSE

\* a === b for two numbers of a configuration; undefined gives NaN, which
\* equals nothing.
SameNumber(config, a, b) ==
  a \in DOMAIN config /\ b \in DOMAIN config /\ config[a] = config[b]

\* The Math.random() calls initParticles makes for each particle.
DrawsOf(data) ==
  LET config == data.config
  IN  IF data.type \in {"moveAcceleration", "animatedRandom", "movePath", "textureRandom",
                        "scale", "scaleStatic", "moveSpeed", "moveSpeedStatic"}
      THEN 1
      ELSE IF data.type = "rotation"
      THEN (IF SameNumber(config, "minStart", "maxStart") THEN 1 ELSE 2)
      ELSE IF data.type = "rotationStatic"
      THEN (IF SameNumber(config, "min", "max") THEN 0 ELSE 1)
      ELSE IF data.type = "spawnBurst"
      THEN (IF "spacing" \in DOMAIN config /\ config.spacing # 0 THEN 0 ELSE 1)
      ELSE IF data.type = "spawnShape"
      THEN (IF config.type = "rect" THEN 2
            ELSE IF config.type = "polygonalChain" THEN 1
            ELSE IF "radius" \in DOMAIN config.data
                    /\ config.data.radius
                         = (IF "innerRadius" \in DOMAIN config.data
                            THEN config.data.innerRadius ELSE 0)
            THEN 1 ELSE 2)
      ELSE 0

\* new constructor(data.config), when it returns: what the emitter and
\* the behavior's own methods read of the instance.
Construct(data) ==
  LET base == [type |-> data.type, order |-> OrderOf(data.type), draws |-> DrawsOf(data)]
  IN  IF data.type = "spawnShape"
      THEN [type |-> data.type, order |-> base.order, draws |-> base.draws,
            shape |-> data.config.type,
            chain |-> PolygonalChain(IF data.config.type = "polygonalChain"
                                        /\ "data" \in DOMAIN data.config
                                     THEN data.config.data ELSE NoData)]
      ELSE IF data.type = "animatedRandom"
      THEN [type |-> data.type, order |-> base.order, draws |-> base.draws,
            anims |-> Len(data.config.anims)]
      ELSE IF data.type = "movePath"
      THEN [type |-> data.type, order |-> base.order, draws |-> base.draws,
            path |-> PathOf(data.config),
            list |-> reset(createList(data.config.speed))]
      ELSE IF data.type \in ListTypes
      THEN [type |-> data.type, order |-> base.order, draws |-> base.draws,
            list |-> reset(createList(data.config[ListProperty(data.type)]))]
      ELSE IF data.type = "moveAcceleration"
      THEN [type |-> data.type, order |-> base.order, draws |-> base.draws,
            accel |-> "accel" \in DOMAIN data.config]
      ELSE base

order(b) == b.order
hasUpdateParticle(b) == b.type \in UpdateTypes
hasRecycleParticle(b) == b.type \in RecycleTypes

\* The Math.random() calls of the behavior's initParticles for a particle.
DrawsAtInit(b) == b.draws

\* The property of particle.config that initParticles of the class sets
\* for each particle and that its updateParticle dereferences.
ConfigKey(type) ==
  IF type \in {"moveAcceleration", "moveSpeed", "moveSpeedStatic"} THEN "velocity"
  ELSE IF type = "movePath" THEN "initPosition"
  ELSE IF type = "animatedRandom" THEN "anim"
  ELSE "none"

\* The body of the loop of behavior.initParticles raises for a particle, r
\* being its Math.random(): RandomAnimatedTextureBehavior reads
\* anim.textures of this.anims[index], which is undefined when there is no
\* animation, and ShapeSpawnBehavior calls this.shape.getRandPos. The other
\* classes assign to the particle and to properties that exist.
initParticlesRaises(b, r) ==
  \/ b.type = "animatedRandom" /\ b.anims = 0
  \/ b.type = "spawnShape" /\ b.shape = "polygonalChain" /\ getRandPos(b.chain, r).raises

\* behavior.updateParticle(particle, deltaSec) raises: the behaviors with a
\* list call this.list.interpolate, PathBehavior then calls this.path,
\* which is not a function when it is null, and AccelerationBehavior reads
\* this.accel.x. The property of particle.config the method dereferences
\* is undefined on a particle that initParticles of the class did not reach.
updateParticleRaises(b, pt) ==
  \/ b.type \in ListTypes /\ interpolate(b.list, pt.agePercent).raises
  \/ b.type = "movePath" /\ b.path = "null"
  \/ b.type = "moveAcceleration" /\ ~b.accel
  \/ ConfigKey(b.type) # "none" /\ ConfigKey(b.type) \notin pt.config

\* behavior.updateParticle(particle, deltaSec): TRUE when the particle
\* must die. Only Reaper returns a value.
updateParticle(b, pt, deltaSec) == b.type = "reaper" /\ pt.age >= 1


\* ------------------------------------------------------------ the world
\* The operations below are functions of a world w: the emitter (w.e), the
\* particles (w.p), the number constructed (w.n), the log of the running
\* operation (w.log: its spawns and recycles in order), the callback
\* invocations (w.cb), the random draws of the call (w.rnd) with the number
\* used (w.k), the locals p, waveFirst and waveLast of the spawning code
\* (w.cur, w.waveFirst, w.waveLast), the shared ticker's elapsedMS
\* (w.elapsedMS), update's delta once it is settled (w.delta), w.err: the call raised an error and
\* stopped there, w.slots: the iterations of update's spawn loop, w.hung:
\* that loop does not end, and w.over: the call needed more than MaxAlloc
\* particles.

\* new Particle(emitter)
NewParticle ==
  [next |-> Null, prev |-> Null, age |-> 0, maxLife |-> 0, agePercent |-> 0,
   config |-> {}]

\* The value that stands for NaN in agePercent.
NotANumber == 0 - 1

\* age * oneOverLife in hundredths, oneOverLife being 1 / maxLife (no
\* customEase is configured here). With maxLife 0 it is read at age 0
\* only, where 0 * Infinity is NaN.
Lerp(pt) == IF pt.maxLife = 0 THEN NotANumber ELSE (pt.age * One) \div pt.maxLife

\* new Emitter(particleParent) without a config.
NewEmitter ==
  [ initBehaviors |-> <<>>, updateBehaviors |-> <<>>, recycleBehaviors |-> <<>>,
    minLifetime |-> 0, maxLifetime |-> 0,
    _frequency |-> 1, spawnChance |-> One, maxParticles |-> DefaultMaxParticles,
    emitterLifetime |-> 0 - 1, spawnPos |-> Point(0), particlesPerWave |-> 1,
    ownerPos |-> Point(0), rotation |-> 0, _parent |-> TRUE,
    particleCount |-> 0, _emit |-> FALSE, _spawnTimer |-> 0, _emitterLife |-> 0 - 1,
    _activeParticlesFirst |-> Null, _activeParticlesLast |-> Null, _poolFirst |-> Null,
    _origConfig |-> NullRef, _autoUpdate |-> FALSE,
    _prevEmitterPos |-> Point(0), _prevPosIsValid |-> FALSE, _posChanged |-> FALSE,
    _destroyWhenComplete |-> FALSE, _completeCallback |-> FALSE ]

World(rnd) ==
  [ e |-> emitter, p |-> particle, n |-> allocated, log |-> <<>>, calls |-> <<>>,
    cb |-> cbCalls, rnd |-> rnd, k |-> 0, over |-> FALSE, err |-> FALSE,
    slots |-> 0, hung |-> FALSE, delta |-> 0, elapsedMS |-> 0,
    cur |-> Null, waveFirst |-> Null, waveLast |-> Null,
    poolBefore |-> Null, nBefore |-> 0 ]

\* Math.random(): the next draw of the call.
Random(w) == w.rnd[(w.k % MaxDraws) + 1]
Drawn(w) == [w EXCEPT !.k = @ + 1]

\* set autoUpdate(value): update is added to the shared ticker when the
\* flag turns true and removed when it turns false, so the emitter listens
\* to the ticker exactly while _autoUpdate is true.
SetAutoUpdateField(w, value) == [w EXCEPT !.e._autoUpdate = value]

\* The setter assigning the flag only.
SetEmitFlagOnly(w, value) == [w EXCEPT !.e._emit = value]

\* set emit(value)
SetEmitField(w, value) ==
  [w EXCEPT !.e._emit = value, !.e._emitterLife = w.e.emitterLifetime]

\* JavaScript values assigned to frequency: numbers (NaN among them, whose
\* typeof is 'number' too), undefined and a string.
Num(n) == [type |-> "number", nan |-> FALSE, num |-> n]
NaN == [type |-> "number", nan |-> TRUE, num |-> 0]
Undefined == [type |-> "undefined", nan |-> FALSE, num |-> 0]
String == [type |-> "string", nan |-> FALSE, num |-> 0]
Str(s) == [type |-> "string", nan |-> FALSE, num |-> 0, str |-> s]

\* The setter without its test.
FrequencyOfUnchecked(value) == value

\* set frequency(value); value is a number here.
FrequencyOf(value) == IF value > 0 THEN value ELSE 1

\* set frequency(value) for any value: NaN > 0 is false.
setFrequency(w, value) ==
  [w EXCEPT !.e._frequency = IF value.type = "number" /\ ~value.nan
                             THEN FrequencyOf(value.num) ELSE 1]

\* The entries of w.calls. slot is the iteration of update's spawn loop the
\* call is made in, 0 outside that loop; b is the index of the behavior in
\* its list; dt is the deltaSec given to updateParticle and, for a spawn,
\* -_spawnTimer at that time.
Spawned(w, x) ==
  [ev |-> "spawn", p |-> x, b |-> 0, dt |-> 0 - w.e._spawnTimer, died |-> FALSE,
   slot |-> w.slots]
InitCalled(w, x, i) == [ev |-> "init", p |-> x, b |-> i, dt |-> 0, died |-> FALSE, slot |-> w.slots]
UpdateCalled(w, x, i, deltaSec, died) ==
  [ev |-> "update", p |-> x, b |-> i, dt |-> deltaSec, died |-> died, slot |-> w.slots]
Recycled(w, x) ==
  [ev |-> "recycle", p |-> x, b |-> 0, dt |-> 0, died |-> FALSE, slot |-> w.slots,
   prev |-> w.p[x].prev, next |-> w.p[x].next]

\* recycle's loop over recycleBehaviors.
RecycleParticleCalls(w, x) ==
  [i \in 1..Len(w.e.recycleBehaviors) |->
     [ev |-> "recycleParticle", p |-> x, b |-> i, dt |-> 0, died |-> FALSE,
      slot |-> w.slots]]

\* recycle without --this.particleCount.
recycleKeepsCount(w, x, why) ==
  LET p0 == w.p
      nx == p0[x].next
      p1 == IF nx # Null THEN [p0 EXCEPT ![nx].prev = p0[x].prev] ELSE p0
      pv == p1[x].prev
      p2 == IF pv # Null THEN [p1 EXCEPT ![pv].next = p1[x].next] ELSE p1
      last == IF x = w.e._activeParticlesLast THEN p2[x].prev
              ELSE w.e._activeParticlesLast
      first == IF x = w.e._activeParticlesFirst THEN p2[x].next
               ELSE w.e._activeParticlesFirst
      p3 == [p2 EXCEPT ![x].prev = Null, ![x].next = w.e._poolFirst]
  IN  [w EXCEPT !.p = p3,
                !.e._activeParticlesLast = last,
                !.e._activeParticlesFirst = first,
                !.e._poolFirst = x,
                !.log = Append(@, [ev |-> "recycle", p |-> x, age |-> p0[x].age,
                                   maxLife |-> p0[x].maxLife, why |-> why]),
                !.calls = Append(@, Recycled(w, x)) \o RecycleParticleCalls(w, x)]

\* recycle without the test that moves _activeParticlesFirst on.
recycleKeepsFirst(w, x, why) ==
  LET p0 == w.p
      nx == p0[x].next
      p1 == IF nx # Null THEN [p0 EXCEPT ![nx].prev = p0[x].prev] ELSE p0
      pv == p1[x].prev
      p2 == IF pv # Null THEN [p1 EXCEPT ![pv].next = p1[x].next] ELSE p1
      last == IF x = w.e._activeParticlesLast THEN p2[x].prev
              ELSE w.e._activeParticlesLast
      p3 == [p2 EXCEPT ![x].prev = Null, ![x].next = w.e._poolFirst]
  IN  [w EXCEPT !.p = p3,
                !.e._activeParticlesLast = last,
                !.e._poolFirst = x,
                !.e.particleCount = @ - 1,
                !.log = Append(@, [ev |-> "recycle", p |-> x, age |-> p0[x].age,
                                   maxLife |-> p0[x].maxLife, why |-> why]),
                !.calls = Append(@, Recycled(w, x)) \o RecycleParticleCalls(w, x)]

\* Emitter.recycle(particle, fromCleanup); why names the caller.
recycle(w, x, why) ==
  LET p0 == w.p
      nx == p0[x].next
      p1 == IF nx # Null THEN [p0 EXCEPT ![nx].prev = p0[x].prev] ELSE p0
      pv == p1[x].prev
      p2 == IF pv # Null THEN [p1 EXCEPT ![pv].next = p1[x].next] ELSE p1
      last == IF x = w.e._activeParticlesLast THEN p2[x].prev
              ELSE w.e._activeParticlesLast
      first == IF x = w.e._activeParticlesFirst THEN p2[x].next
               ELSE w.e._activeParticlesFirst
      p3 == [p2 EXCEPT ![x].prev = Null, ![x].next = w.e._poolFirst]
  IN  [w EXCEPT !.p = p3,
                !.e._activeParticlesLast = last,
                !.e._activeParticlesFirst = first,
                !.e._poolFirst = x,
                !.e.particleCount = @ - 1,
                !.log = Append(@, [ev |-> "recycle", p |-> x, age |-> p0[x].age,
                                   maxLife |-> p0[x].maxLife, why |-> why]),
                !.calls = Append(@, Recycled(w, x)) \o RecycleParticleCalls(w, x)]

\* Emitter.cleanup(): the loop, then the two assignments.
RECURSIVE CleanupLoop(_, _)
CleanupLoop(w, x) ==
  IF x = Null THEN w
  ELSE LET next == w.p[x].next IN CleanupLoop(recycle(w, x, "cleanup"), next)

cleanup(w) ==
  LET w1 == CleanupLoop(w, w.e._activeParticlesFirst)
  IN  [w1 EXCEPT !.e._activeParticlesFirst = Null,
                 !.e._activeParticlesLast = Null,
                 !.e.particleCount = 0]

\* Emitter.fillPool(count)
RECURSIVE fillPool(_, _)
fillPool(w, count) ==
  IF count <= 0 THEN w
  ELSE IF w.n >= MaxAlloc THEN [w EXCEPT !.over = TRUE]
  ELSE LET id == w.n + 1
       IN  fillPool([w EXCEPT !.n = id,
                              !.p[id] = [NewParticle EXCEPT !.next = w.e._poolFirst],
                              !.e._poolFirst = id],
                    count - 1)

\* Particle.destroy() on every particle of the pool (Emitter.destroy's loop).
RECURSIVE DestroyPool(_, _)
DestroyPool(w, x) ==
  IF x = Null THEN w
  ELSE LET next == w.p[x].next
       IN  DestroyPool([w EXCEPT !.p[x].next = Null, !.p[x].prev = Null], next)

\* destroy without the release of the pool.
destroyKeepsPool(w) ==
  LET w1 == cleanup([w EXCEPT !.e._autoUpdate = FALSE])
  IN  [w1 EXCEPT !.e._parent = FALSE,
                 !.e.spawnPos = NullRef, !.e.ownerPos = NullRef,
                 !.e._completeCallback = FALSE,
                 !.e.initBehaviors = <<>>, !.e.updateBehaviors = <<>>,
                 !.e.recycleBehaviors = <<>>]

\* Emitter.destroy()
destroy(w) ==
  LET w1 == cleanup([w EXCEPT !.e._autoUpdate = FALSE])
      w2 == DestroyPool(w1, w1.e._poolFirst)
  IN  [w2 EXCEPT !.e._poolFirst = Null, !.e._parent = FALSE,
                 !.e.spawnPos = NullRef, !.e.ownerPos = NullRef,
                 !.e._completeCallback = FALSE,
                 !.e.initBehaviors = <<>>, !.e.updateBehaviors = <<>>,
                 !.e.recycleBehaviors = <<>>]


\* ------------------------------------------------------------------ init
Has(config, field) == field \in DOMAIN config

\* The comparator that puts the position step in front of every behavior.
CompareBehaviorsPositionFirst(a, b) ==
  IF a = PositionParticle THEN 0 - 1
  ELSE IF b = PositionParticle THEN 1
  ELSE order(a) - order(b)

\* The comparator init passes to behaviors.sort.
CompareBehaviors(a, b) ==
  IF a = PositionParticle THEN (IF order(b) = OrderSpawn THEN 1 ELSE 0 - 1)
  ELSE IF b = PositionParticle THEN (IF order(a) = OrderSpawn THEN 0 - 1 ELSE 1)
  ELSE order(a) - order(b)

\* Array.prototype.sort on a short array: a stable insertion sort.
RECURSIVE InsertSorted(_, _)
InsertSorted(sorted, x) ==
  IF sorted = <<>> THEN <<x>>
  ELSE IF CompareBehaviors(sorted[Len(sorted)], x) > 0
       THEN Append(InsertSorted(SubSeq(sorted, 1, Len(sorted) - 1), x),
                   sorted[Len(sorted)])
       ELSE Append(sorted, x)

RECURSIVE SortBehaviors(_)
SortBehaviors(list) ==
  IF list = <<>> THEN <<>>
  ELSE InsertSorted(SortBehaviors(SubSeq(list, 1, Len(list) - 1)), list[Len(list)])

\* The lookup that finds a constructor for every type.
IsKnownAlways(data) == TRUE

\* Emitter.knownBehaviors[data.type] is a constructor.
IsKnown(data) == data.type \in knownBehaviors
IsUpdateBehavior(b) == b # PositionParticle /\ hasUpdateParticle(b)
IsRecycleBehavior(b) == b # PositionParticle /\ hasRecycleParticle(b)

\* config.behaviors.map(...).filter(...): the instances of the known
\* entries, in the order of the entries.
RECURSIVE MapBehaviors(_)
MapBehaviors(list) ==
  IF list = <<>> THEN <<>>
  ELSE LET data == list[Len(list)]
           before == MapBehaviors(SubSeq(list, 1, Len(list) - 1))
       IN  IF IsKnown(data) THEN Append(before, Construct(data)) ELSE before

\* A constructor called by the map raises.
MapRaises(list) ==
  \E i \in 1..Len(list) : IsKnown(list[i]) /\ ConstructorRaises(list[i])

\* Emitter.init(config) with a config that is not null. On a destroyed
\* emitter ownerPos is null and this.ownerPos.set(0) raises: the
\* assignments made before it stay. So do all but the behavior lists when
\* the constructor of a behavior raises. spawnPos is a copy of config.pos
\* when the configuration has one, an object with x, and _prevEmitterPos a
\* copy of spawnPos.
init(w, config) ==
  LET w1 == cleanup(w)
      ppw == IF Has(config, "particlesPerWave") /\ config.particlesPerWave > 1
             THEN config.particlesPerWave ELSE 1
      freq == IF Has(config, "frequency") THEN FrequencyOf(config.frequency) ELSE 1
      chance == IF Has(config, "spawnChance") /\ config.spawnChance > 0
                THEN config.spawnChance ELSE One
      life == IF Has(config, "emitterLifetime") /\ config.emitterLifetime # 0
              THEN config.emitterLifetime ELSE 0 - 1
      maxP == IF Has(config, "maxParticles") /\ config.maxParticles > 0
              THEN config.maxParticles ELSE DefaultMaxParticles
      w2 == [w1 EXCEPT !.e._origConfig = config,
                       !.e.minLifetime = config.lifetime.min,
                       !.e.maxLifetime = config.lifetime.max,
                       !.e.particlesPerWave = ppw,
                       !.e._frequency = freq,
                       !.e.spawnChance = chance,
                       !.e.emitterLifetime = life,
                       !.e.maxParticles = maxP,
                       !.e.rotation = 0]
      pos == IF Has(config, "pos") /\ Has(config.pos, "x")
             THEN Point(config.pos.x) ELSE Point(0)
      w3 == [w2 EXCEPT !.e.ownerPos = Point(0),
                       !.e.spawnPos = pos,
                       !.e._prevEmitterPos = pos,
                       !.e._prevPosIsValid = FALSE,
                       !.e._spawnTimer = 0]
      w4 == SetEmitField(w3, IF Has(config, "emit") THEN config.emit ELSE TRUE)
      w5 == SetAutoUpdateField(w4, Has(config, "autoUpdate") /\ config.autoUpdate)
      behaviors == SortBehaviors(Append(MapBehaviors(config.behaviors),
                                        PositionParticle))
  IN  IF w.e.ownerPos = NullRef THEN [w2 EXCEPT !.err = TRUE]
      ELSE IF MapRaises(config.behaviors) THEN [w5 EXCEPT !.err = TRUE]
      ELSE [w5 EXCEPT !.e.initBehaviors = behaviors,
                      !.e.updateBehaviors = SelectSeq(behaviors, IsUpdateBehavior),
                      !.e.recycleBehaviors = SelectSeq(behaviors, IsRecycleBehavior)]

\* ---------------------------------------------------------------- update
\* The loop without its break: the behaviors after the one that signals
\* death run on the recycled particle.
RECURSIVE RunUpdateBehaviorsNoBreak(_, _, _, _, _)
RunUpdateBehaviorsNoBreak(w, x, deltaSec, i, why) ==
  IF i > Len(w.e.updateBehaviors) THEN w
  ELSE IF updateParticleRaises(w.e.updateBehaviors[i], w.p[x])
  THEN [w EXCEPT !.err = TRUE,
                 !.calls = Append(@, UpdateCalled(w, x, i, deltaSec, FALSE))]
  ELSE LET died == updateParticle(w.e.updateBehaviors[i], w.p[x], deltaSec)
           w1 == [w EXCEPT !.calls = Append(@, UpdateCalled(w, x, i, deltaSec, died))]
       IN  RunUpdateBehaviorsNoBreak(IF died THEN recycle(w1, x, why) ELSE w1,
                                     x, deltaSec, i + 1, why)

\* The loop over updateBehaviors for one particle, from behavior i on:
\* the first behavior that signals death recycles the particle and ends it.
RECURSIVE RunUpdateBehaviors(_, _, _, _, _)
RunUpdateBehaviors(w, x, deltaSec, i, why) ==
  IF i > Len(w.e.updateBehaviors) THEN w
  ELSE IF updateParticleRaises(w.e.updateBehaviors[i], w.p[x])
  THEN [w EXCEPT !.err = TRUE,
                 !.calls = Append(@, UpdateCalled(w, x, i, deltaSec, FALSE))]
  ELSE LET died == updateParticle(w.e.updateBehaviors[i], w.p[x], deltaSec)
           w1 == [w EXCEPT !.calls = Append(@, UpdateCalled(w, x, i, deltaSec, died))]
       IN  IF died
           THEN recycle(w1, x, why)
           ELSE RunUpdateBehaviors(w1, x, deltaSec, i + 1, why)

\* The test without its age < 0 half.
TooOldForward(pt) == pt.age > pt.maxLife

\* The test with >= for >.
TooOldEager(pt) == pt.age >= pt.maxLife \/ pt.age < 0

\* The test that ends a particle's life in update's first loop.
TooOld(pt) == pt.age > pt.maxLife \/ pt.age < 0

\* update's first loop: age and update every particle of the active list.
RECURSIVE AgeLoop(_, _, _)
AgeLoop(w, x, delta) ==
  IF x = Null \/ w.err THEN w
  ELSE LET next == w.p[x].next
           w1 == [w EXCEPT !.p[x].age = Plus(@, delta)]
           w2 == IF TooOld(w1.p[x]) THEN recycle(w1, x, "age")
                 ELSE RunUpdateBehaviors([w1 EXCEPT !.p[x].agePercent = Lerp(w1.p[x])],
                                         x, delta, 1, "behavior")
       IN  Then(w2, LAMBDA u : AgeLoop(u, next, delta))

AgePhase(w, delta) == AgeLoop(w, w.e._activeParticlesFirst, delta)

\* Taking a new Particle although the pool holds one.
TakeParticleFresh(w) ==
  IF w.n >= MaxAlloc THEN [w EXCEPT !.over = TRUE]
  ELSE [w EXCEPT !.n = w.n + 1, !.p[w.n + 1] = NewParticle, !.cur = w.n + 1]

\* The particle to spawn: the head of the pool, or a new Particle.
TakeParticle(w) ==
  IF w.e._poolFirst # Null
  THEN [w EXCEPT !.cur = w.e._poolFirst,
                 !.e._poolFirst = w.p[w.e._poolFirst].next,
                 !.p[w.e._poolFirst].next = Null]
  ELSE IF w.n >= MaxAlloc THEN [w EXCEPT !.over = TRUE]
  ELSE [w EXCEPT !.n = w.n + 1, !.p[w.n + 1] = NewParticle, !.cur = w.n + 1]

\* The same without ++particleCount.
InitAndLinkUncounted(w, lifetime, by) ==
  LET x == w.cur
      w1 == [w EXCEPT !.p[x].maxLife = lifetime, !.p[x].age = 0,
                      !.p[x].agePercent = 0]
      w2 == IF w1.waveFirst # Null
            THEN [w1 EXCEPT !.p[w1.waveLast].next = x, !.p[x].prev = w1.waveLast,
                            !.waveLast = x]
            ELSE [w1 EXCEPT !.waveFirst = x, !.waveLast = x]
  IN  [w2 EXCEPT !.calls = Append(@, Spawned(w, x)),
                 !.log = Append(@, [ev |-> "spawn", p |-> x, by |-> by,
                                    poolHead |-> w.poolBefore, n |-> w.nBefore,
                                    nAfter |-> w.n,
                                    owed |-> IF by = "update" THEN 0 - w.e._spawnTimer
                                             ELSE 0])]

\* p.init(lifetime), the wave's links, ++particleCount.
InitAndLink(w, lifetime, by) ==
  LET x == w.cur
      w1 == [w EXCEPT !.p[x].maxLife = lifetime, !.p[x].age = 0,
                      !.p[x].agePercent = 0]
      w2 == IF w1.waveFirst # Null
            THEN [w1 EXCEPT !.p[w1.waveLast].next = x, !.p[x].prev = w1.waveLast,
                            !.waveLast = x]
            ELSE [w1 EXCEPT !.waveFirst = x, !.waveLast = x]
  IN  [w2 EXCEPT !.e.particleCount = @ + 1,
                 !.calls = Append(@, Spawned(w, x)),
                 !.log = Append(@, [ev |-> "spawn", p |-> x, by |-> by,
                                    poolHead |-> w.poolBefore, n |-> w.nBefore,
                                    nAfter |-> w.n,
                                    owed |-> IF by = "update" THEN 0 - w.e._spawnTimer
                                             ELSE 0])]

\* What the spawning code finds before it takes a particle (for the log).
Noted(w) == [w EXCEPT !.poolBefore = w.e._poolFirst, !.nBefore = w.n]

\* The lifetime of a new particle, r being the draw used when min # max.
Lifetime(e, r) ==
  IF e.minLifetime = e.maxLifetime THEN e.minLifetime
  ELSE (r * (e.maxLifetime - e.minLifetime)) \div One + e.minLifetime

\* The test with > for >=.
SkipsSpawnStrict(e, r) == e.spawnChance < One /\ r > e.spawnChance

\* The test that skips a particle of a wave, r being the draw, made only
\* when spawnChance < 1.
SkipsSpawn(e, r) == e.spawnChance < One /\ r >= e.spawnChance

\* The wave's length without the cap.
WaveLenUncapped(e) == e.particlesPerWave

\* The particles a wave may hold: particlesPerWave, capped by the room left.
WaveLen(e) == Min(e.particlesPerWave, e.maxParticles - e.particleCount)

\* update's loop that fills one wave.
RECURSIVE SpawnWave(_, _, _)
SpawnWave(w, i, len) ==
  IF i >= len \/ w.over THEN w
  ELSE
    LET chanceDraw == w.e.spawnChance < One
        wA == IF chanceDraw THEN Drawn(w) ELSE w
    IN  IF SkipsSpawn(w.e, Random(w)) THEN SpawnWave(wA, i + 1, len)
        ELSE
          LET lifeDraw == w.e.minLifetime # w.e.maxLifetime
              wB == IF lifeDraw THEN Drawn(wA) ELSE wA
              lifetime == Lifetime(w.e, Random(wA))
          IN  IF 0 - w.e._spawnTimer >= lifetime THEN SpawnWave(wB, i + 1, len)
              ELSE LET wC == TakeParticle(Noted(wB))
                   IN  IF wC.over THEN wC
                       ELSE SpawnWave(InitAndLink(wC, lifetime, "update"), i + 1, len)

\* The wave put in front of the active list.
LinkWaveAtHead(w) ==
  IF w.e._activeParticlesFirst # Null
  THEN [w EXCEPT !.p[w.waveLast].next = w.e._activeParticlesFirst,
                 !.p[w.e._activeParticlesFirst].prev = w.waveLast,
                 !.e._activeParticlesFirst = w.waveFirst]
  ELSE [w EXCEPT !.e._activeParticlesFirst = w.waveFirst,
                 !.e._activeParticlesLast = w.waveLast]

\* The wave joins the active list at its tail.
LinkWave(w) ==
  IF w.e._activeParticlesLast # Null
  THEN [w EXCEPT !.p[w.e._activeParticlesLast].next = w.waveFirst,
                 !.p[w.waveFirst].prev = w.e._activeParticlesLast,
                 !.e._activeParticlesLast = w.waveLast]
  ELSE [w EXCEPT !.e._activeParticlesFirst = w.waveFirst,
                 !.e._activeParticlesLast = w.waveLast]

\* The PositionParticle step of update over the wave: the age is back-dated
\* by the time owed, -_spawnTimer.
RECURSIVE PositionWave(_, _, _)
PositionWave(w, i, x) ==
  IF x = Null THEN w
  ELSE LET next == w.p[x].next
           aged == [w.p[x] EXCEPT !.age = @ + (0 - w.e._spawnTimer)]
       IN  PositionWave([w EXCEPT !.p[x] = [aged EXCEPT !.agePercent = Lerp(aged)],
                                  !.calls = Append(@, InitCalled(w, x, i))],
                        i, next)

\* What the call behavior.initParticles(first) of initBehaviors[i] is made
\* on: the particles of the list from first on.
RECURSIVE InitCalls(_, _, _)
InitCalls(w, i, x) ==
  IF x = Null THEN <<>> ELSE <<InitCalled(w, x, i)>> \o InitCalls(w, i, w.p[x].next)

\* The loop of behavior.initParticles(first) of initBehaviors[i] from
\* particle x on: a behavior that draws does so once for each particle,
\* particle.config gets the property the class keeps there
\* (RandomAnimatedTextureBehavior assigns this.anims[index], undefined
\* when it has no animation), and what the body raises ends the loop and
\* the call.
RECURSIVE InitLoop(_, _, _)
InitLoop(w, i, x) ==
  IF x = Null THEN w
  ELSE LET b == w.e.initBehaviors[i]
           key == {ConfigKey(b.type)} \ {"none"}
           w1 == [w EXCEPT !.k = @ + DrawsAtInit(b),
                           !.p[x].config = IF b.type = "animatedRandom" /\ b.anims = 0
                                           THEN @ \ key ELSE @ \cup key]
       IN  IF initParticlesRaises(b, Random(w)) THEN [w1 EXCEPT !.err = TRUE]
           ELSE InitLoop(w1, i, w.p[x].next)

\* behavior.initParticles(first) of initBehaviors[i].
DrawnWave(w, i, x) ==
  InitLoop([w EXCEPT !.calls = @ \o InitCalls(w, i, x)], i, x)

\* update's loop over initBehaviors for a wave; what initParticles raises
\* ends it and update.
RECURSIVE InitWave(_, _)
InitWave(w, i) ==
  IF i > Len(w.e.initBehaviors) \/ w.err THEN w
  ELSE IF w.e.initBehaviors[i] = PositionParticle
       THEN InitWave(PositionWave(w, i, w.waveFirst), i + 1)
       ELSE InitWave(DrawnWave(w, i, w.waveFirst), i + 1)

\* The catch-up loop giving the whole delta of the call.
RECURSIVE CatchUpWaveWholeDelta(_, _)
CatchUpWaveWholeDelta(w, x) ==
  IF x = Null \/ w.err THEN w
  ELSE LET next == w.p[x].next
       IN  CatchUpWaveWholeDelta(RunUpdateBehaviors(w, x, w.delta, 1, "catchup"), next)

\* update's catch-up loop over the wave, with deltaSec = -_spawnTimer.
RECURSIVE CatchUpWave(_, _)
CatchUpWave(w, x) ==
  IF x = Null \/ w.err THEN w
  ELSE LET next == w.p[x].next
       IN  CatchUpWave(RunUpdateBehaviors(w, x, 0 - w.e._spawnTimer, 1, "catchup"),
                       next)

\* The double Infinity: above every finite number of the model, and what a
\* division of a number other than 0 by 0 gives, with the sign of the number.
Infinity == 1000 * Huge
IsInfinite(v) == ~v.nan /\ Abs(v.num) >= Infinity

\* lerp = 1 + this._spawnTimer / delta in hundredths: 0 / 0 is NaN, and a
\* negative timer over 0 is -Infinity.
EmitLerp(timer, delta) ==
  IF delta = 0
  THEN (IF timer = 0 THEN NaN
        ELSE IF timer < 0 THEN Num(0 - Infinity) ELSE Num(Infinity))
  ELSE Num(One + (timer * One) \div delta)

\* (cur - prev) * lerp + prev: 0 times an infinite lerp is NaN, any other
\* distance times it is infinite, and adding prev changes neither.
LerpPosition(cur, prev, lerp) ==
  IF lerp.nan THEN NaN
  ELSE IF IsInfinite(lerp)
  THEN (IF cur = prev THEN NaN
        ELSE IF (cur > prev) = (lerp.num > 0) THEN Num(Infinity)
        ELSE Num(0 - Infinity))
  ELSE Num(((cur - prev) * lerp.num) \div One + prev)

\* emitPosX of a slot: between the previous and the current position of the
\* emitter when the previous one is valid and the position changed, else
\* the current position.
EmitPosition(w) ==
  LET cur == w.e.ownerPos.x + w.e.spawnPos.x
      prev == w.e._prevEmitterPos.x
      lerp == EmitLerp(w.e._spawnTimer, w.delta)
  IN  IF w.e._prevPosIsValid /\ w.e._posChanged
      THEN [ev |-> "emitPos", p |-> Null, slot |-> w.slots, interpolated |-> TRUE,
            lerp |-> lerp,
            pos |-> LerpPosition(cur, prev, lerp)]
      ELSE [ev |-> "emitPos", p |-> Null, slot |-> w.slots, interpolated |-> FALSE,
            lerp |-> Num(One), pos |-> Num(cur)]

\* The slot with the catch-up loop before the loop over initBehaviors.
SpawnSlotCatchUpFirst(w) ==
  LET len == WaveLen(w.e)
      w0 == [w EXCEPT !.calls = Append(@, EmitPosition(w))]
      w1 == SpawnWave([w0 EXCEPT !.waveFirst = Null, !.waveLast = Null], 0, len)
  IN  IF w1.over \/ w1.waveFirst = Null THEN w1
      ELSE LET w2 == CatchUpWave(LinkWave(w1), w1.waveFirst)
           IN  IF w2.err THEN w2 ELSE InitWave(w2, 1)

\* One spawn slot that is not dropped: the wave, its init and its catch-up.
SpawnSlot(w) ==
  LET len == WaveLen(w.e)
      w0 == [w EXCEPT !.calls = Append(@, EmitPosition(w))]
      w1 == SpawnWave([w0 EXCEPT !.waveFirst = Null, !.waveLast = Null], 0, len)
  IN  IF w1.over \/ w1.waveFirst = Null THEN w1
      ELSE CatchUpWave(InitWave(LinkWave(w1), 1), w1.waveFirst)

\* The loop with the dropped slot of a full emitter leaving the timer as it is.
RECURSIVE SpawnLoopKeepsTimerAtCap(_)
SpawnLoopKeepsTimerAtCap(w) ==
  IF w.e._spawnTimer > 0 \/ w.over \/ w.hung \/ w.err THEN w
  ELSE IF w.slots >= MaxSlots THEN [w EXCEPT !.hung = TRUE]
  ELSE
    LET w0 == [w EXCEPT !.slots = @ + 1]
        w1 == IF w.e._emitterLife >= 0
              THEN [w0 EXCEPT !.e._emitterLife = @ - w.e._frequency] ELSE w0
    IN  IF w.e._emitterLife >= 0 /\ w1.e._emitterLife <= 0
        THEN SetEmitField([w1 EXCEPT !.e._spawnTimer = 0, !.e._emitterLife = 0], FALSE)
        ELSE IF w1.e.particleCount >= w1.e.maxParticles
        THEN SpawnLoopKeepsTimerAtCap(w1)
        ELSE LET w2 == SpawnSlot(w1)
             IN  IF w2.err THEN w2
                 ELSE SpawnLoopKeepsTimerAtCap(
                        [w2 EXCEPT !.e._spawnTimer = Plus(@, w2.e._frequency)])

\* update's while (_spawnTimer <= 0) loop.
RECURSIVE SpawnLoop(_)
SpawnLoop(w) ==
  IF w.e._spawnTimer > 0 \/ w.over \/ w.hung \/ w.err THEN w
  ELSE IF w.slots >= MaxSlots THEN [w EXCEPT !.hung = TRUE]
  ELSE
    LET w0 == [w EXCEPT !.slots = @ + 1]
        w1 == IF w.e._emitterLife >= 0
              THEN [w0 EXCEPT !.e._emitterLife = @ - w.e._frequency] ELSE w0
    IN  IF w.e._emitterLife >= 0 /\ w1.e._emitterLife <= 0
        THEN SetEmitField([w1 EXCEPT !.e._spawnTimer = 0, !.e._emitterLife = 0], FALSE)
        ELSE IF w1.e.particleCount >= w1.e.maxParticles
        THEN SpawnLoop([w1 EXCEPT !.e._spawnTimer = Plus(@, w1.e._frequency)])
        ELSE LET w2 == SpawnSlot(w1)
             IN  IF w2.err THEN w2
                 ELSE SpawnLoop([w2 EXCEPT !.e._spawnTimer = Plus(@, w2.e._frequency)])

\* The block without its test of the emit flag.
SpawnPhaseAlways(w, delta) ==
  IF w.err THEN w
  ELSE SpawnLoop([w EXCEPT !.e._spawnTimer = Plus(@, 0 - (IF delta < 0 THEN 0 ELSE delta))])

\* The block taking a negative delta from the timer as it is.
SpawnPhaseUnclamped(w, delta) ==
  IF w.err THEN w
  ELSE IF w.e._emit
  THEN SpawnLoop([w EXCEPT !.e._spawnTimer = Plus(@, 0 - delta)])
  ELSE w

\* update's "spawn new particles" block.
SpawnPhase(w, delta) ==
  IF w.err THEN w
  ELSE IF w.e._emit
  THEN SpawnLoop([w EXCEPT !.e._spawnTimer = Plus(@, 0 - (IF delta < 0 THEN 0 ELSE delta))])
  ELSE w

\* The block without the assignment that clears _completeCallback.
CompleteKeepsCallback(w) ==
  IF ~w.e._emit /\ w.e._activeParticlesFirst = Null
  THEN LET w1 == IF w.e._completeCallback THEN [w EXCEPT !.cb = @ + 1] ELSE w
       IN  IF w1.e._destroyWhenComplete THEN destroy(w1) ELSE w1
  ELSE w

\* update's last block: the completion callback and the self-destruction.
Complete(w) ==
  IF ~w.e._emit /\ w.e._activeParticlesFirst = Null
  THEN LET w1 == IF w.e._completeCallback
                 THEN [w EXCEPT !.e._completeCallback = FALSE, !.cb = @ + 1]
                 ELSE w
       IN  IF w1.e._destroyWhenComplete THEN destroy(w1) ELSE w1
  ELSE w

\* update's "if the position changed before this update, then keep track
\* of that" block; curX is ownerPos.x + spawnPos.x.
TrackPosition(w) ==
  IF w.e._posChanged
  THEN [w EXCEPT !.e._prevEmitterPos = Point(w.e.ownerPos.x + w.e.spawnPos.x),
                 !.e._prevPosIsValid = TRUE,
                 !.e._posChanged = FALSE]
  ELSE w

\* update with the spawns before the pass over the existing particles.
UpdateParticlesSpawnFirst(w, delta) == AgePhase(SpawnPhase(w, delta), delta)

\* update: existing particles first, then the spawns.
UpdateParticles(w, delta) == SpawnPhase(AgePhase(w, delta), delta)

\* What update is called with: a number of seconds, or the Ticker that
\* the shared ticker of pixi.js v8 passes to its listeners.
Seconds(n) == [typeof |-> "number", value |-> n]
TickerOf(deltaTime) == [typeof |-> "object", deltaTime |-> deltaTime]

\* The delta update works with: its argument when that is a number, the
\* argument's deltaTime when it is not, and ticker.elapsedMS * 0.001
\* instead of either while _autoUpdate is set.
DeltaOf(w, delta) ==
  LET given == IF delta.typeof # "number" THEN delta.deltaTime ELSE delta.value
  IN  IF w.e._autoUpdate THEN w.elapsedMS \div 1000 ELSE given

\* update once delta is settled. On a destroyed emitter that was given a
\* parent again, ownerPos is null and reading this.ownerPos.x after the
\* first loop raises. What a behavior raises ends update where it is.
updateBy(w, delta) ==
  IF ~w.e._parent THEN w
  ELSE IF w.e.ownerPos = NullRef THEN [AgePhase(w, delta) EXCEPT !.err = TRUE]
  ELSE Then(UpdateParticles(w, delta),
            LAMBDA u : IF u.hung \/ u.err THEN u ELSE Complete(TrackPosition(u)))

\* Emitter.update(delta)
update(w, delta) == updateBy([w EXCEPT !.delta = DeltaOf(w, delta)], DeltaOf(w, delta))

\* --------------------------------------------------------------- emitNow
\* emitNow's loop that fills the wave. Without a parent,
\* this._parent.addChild(p) raises once p is taken and initialized.
RECURSIVE EmitWave(_, _, _)
EmitWave(w, i, len) ==
  IF i >= len \/ w.over \/ w.err THEN w
  ELSE
    LET chanceDraw == w.e.spawnChance < One
        wA == IF chanceDraw THEN Drawn(w) ELSE w
    IN  IF SkipsSpawn(w.e, Random(w)) THEN EmitWave(wA, i + 1, len)
        ELSE
          LET wB == TakeParticle(Noted(wA))
              lifeDraw == w.e.minLifetime # w.e.maxLifetime
              wC == IF lifeDraw THEN Drawn(wB) ELSE wB
              lifetime == Lifetime(w.e, Random(wB))
          IN  IF wB.over THEN wB
              ELSE IF ~w.e._parent
              THEN [wC EXCEPT !.p[wC.cur].maxLife = lifetime, !.p[wC.cur].age = 0,
                              !.p[wC.cur].agePercent = 0, !.err = TRUE]
              ELSE EmitWave(InitAndLink(wC, lifetime, "emitNow"), i + 1, len)

\* emitNow's loop over initBehaviors for the wave: its PositionParticle step
\* changes no age.
RECURSIVE EmitPositionWave(_, _, _)
EmitPositionWave(w, i, x) ==
  IF x = Null THEN w
  ELSE EmitPositionWave([w EXCEPT !.calls = Append(@, InitCalled(w, x, i))],
                        i, w.p[x].next)

RECURSIVE EmitInitWave(_, _)
EmitInitWave(w, i) ==
  IF i > Len(w.e.initBehaviors) \/ w.err THEN w
  ELSE IF w.e.initBehaviors[i] = PositionParticle
       THEN EmitInitWave(EmitPositionWave(w, i, w.waveFirst), i + 1)
       ELSE EmitInitWave(DrawnWave(w, i, w.waveFirst), i + 1)

\* emitNow with update's catch-up loop after its own loop over
\* initBehaviors: the ages stay 0, the update-behaviors run on the wave.
emitNowCatchesUp(w) ==
  LET len == WaveLen(w.e)
      w1 == EmitWave([w EXCEPT !.waveFirst = Null, !.waveLast = Null], 0, len)
  IN  IF w.e.ownerPos = NullRef THEN [w EXCEPT !.err = TRUE]
      ELSE IF w1.over \/ w1.err \/ w1.waveFirst = Null THEN w1
      ELSE CatchUpWave(EmitInitWave(LinkWave(w1), 1), w1.waveFirst)

\* Emitter.emitNow(): the wave, its initBehaviors, and no catch-up loop. On a destroyed emitter reading this.ownerPos.x
\* raises at once.
emitNow(w) ==
  LET len == WaveLen(w.e)
      w1 == EmitWave([w EXCEPT !.waveFirst = Null, !.waveLast = Null], 0, len)
  IN  IF w.e.ownerPos = NullRef THEN [w EXCEPT !.err = TRUE]
      ELSE IF w1.over \/ w1.err \/ w1.waveFirst = Null THEN w1
      ELSE EmitInitWave(LinkWave(w1), 1)

\* set parent(value): value is a container (TRUE) or null (FALSE).
SetParentField(w, value) == [cleanup(w) EXCEPT !.e._parent = value]

\* updateOwnerPos(x, y); on a destroyed emitter ownerPos is null and the
\* assignment of x raises after _posChanged is set.
updateOwnerPos(w, x) ==
  IF w.e.ownerPos = NullRef THEN [w EXCEPT !.e._posChanged = TRUE, !.err = TRUE]
  ELSE [w EXCEPT !.e._posChanged = TRUE, !.e.ownerPos = Point(x)]

\* updateSpawnPos(x, y); on a destroyed emitter spawnPos is null and the
\* assignment of x raises after _posChanged is set.
updateSpawnPos(w, x) ==
  IF w.e.spawnPos = NullRef THEN [w EXCEPT !.e._posChanged = TRUE, !.err = TRUE]
  ELSE [w EXCEPT !.e._posChanged = TRUE, !.e.spawnPos = Point(x)]

\* rotatePoint(angle, p), the angle in radians and other than 0: the point
\* at the origin stays there; the coordinates of any other point are
\* multiplied by a sine and a cosine that are no whole numbers, which takes
\* the point out of the values of the model. Every point of the model has
\* y = 0.
rotatePoint(w, angle) ==
  IF angle = 0 THEN w
  ELSE IF w.e.spawnPos = NullRef THEN [w EXCEPT !.err = TRUE]
  ELSE IF w.e.spawnPos.x = 0 THEN w
  ELSE [w EXCEPT !.over = TRUE]

\* rotate(newRot): nothing when the rotation is newRot already; else the
\* rotation is set, spawnPos turned by the difference and _posChanged set.
\* On a destroyed emitter rotatePoint raises on the null spawnPos, after
\* the rotation is set and before _posChanged is.
rotate(w, newRot) ==
  IF w.e.rotation = newRot THEN w
  ELSE LET w1 == rotatePoint([w EXCEPT !.e.rotation = newRot], newRot - w.e.rotation)
       IN  IF w1.err \/ w1.over THEN w1 ELSE [w1 EXCEPT !.e._posChanged = TRUE]

\* resetPositionTracking()
resetPositionTracking(w) == [w EXCEPT !.e._prevPosIsValid = FALSE]

\* get destroyed()
destroyed(e) == ~(e._parent /\ Len(e.initBehaviors) > 0)


\* --------------------------------------------------------------- configs
\* The configurations init is called with. A field a configuration leaves
\* out is undefined in the code.
With(config, field, value) ==
  [f \in DOMAIN config \cup {field} |-> IF f = field THEN value ELSE config[f]]

\* An entry of config.behaviors whose config holds nothing that is read.
Entry(type) == [type |-> type, config |-> [none |-> TRUE]]

\* An entry for the library's alpha behavior, fading from 1 to 0.
AlphaEntry ==
  [type |-> "alpha",
   config |-> [alpha |-> [list |-> <<[value |-> 1, time |-> 0],
                                     [value |-> 0, time |-> One]>>]]]

SteadyConfig ==
  [ lifetime |-> [min |-> 2, max |-> 2], frequency |-> 1, particlesPerWave |-> 1,
    maxParticles |-> 5, emit |-> TRUE, behaviors |-> <<>> ]
LimitedConfig == With(SteadyConfig, "emitterLifetime", 2)
NoChanceConfig == With(SteadyConfig, "spawnChance", 0)
\* LimitedConfig with room for two particles.
BriefConfig == With(LimitedConfig, "maxParticles", 2)
CappedConfig ==
  [ lifetime |-> [min |-> 1, max |-> 3], frequency |-> 2, particlesPerWave |-> 2,
    maxParticles |-> 2, spawnChance |-> 50, emit |-> TRUE,
    behaviors |-> <<AlphaEntry, Entry("unknown")>> ]
ReapedConfig ==
  [ lifetime |-> [min |-> 2, max |-> 2], frequency |-> 0, maxParticles |-> 0,
    emit |-> FALSE, behaviors |-> <<AlphaEntry, Entry("reaper")>> ]

\* An entry for the library's spawnShape behavior: data is what the shape
\* class of the type reads.
ShapeData(type) ==
  IF type = "rect" THEN [x |-> 0, y |-> 0, w |-> 2, h |-> 2]
  ELSE IF type = "polygonalChain" THEN PointList(<<XY(0, 0), XY(3, 4)>>)
  ELSE [x |-> 0, y |-> 0, radius |-> 2, innerRadius |-> 1]
ShapeEntry(type) ==
  [type |-> "spawnShape", config |-> [type |-> type, data |-> ShapeData(type)]]

\* The entry without config.data.
BareShapeEntry(type) == [type |-> "spawnShape", config |-> [type |-> type]]

\* Waves of two particles with a behavior of every order: spawnShape
\* (Spawn), reaper (Normal), moveSpeedStatic (Late); and with two behaviors
\* that never signal death.
WaveConfig ==
  [ lifetime |-> [min |-> 3, max |-> 3], frequency |-> 1, particlesPerWave |-> 2,
    maxParticles |-> 5, emit |-> TRUE,
    behaviors |-> <<Entry("moveSpeedStatic"), Entry("reaper"), ShapeEntry("rect")>> ]
SpeedWaveConfig ==
  [ lifetime |-> [min |-> 2, max |-> 2], frequency |-> 2, particlesPerWave |-> 2,
    maxParticles |-> 5, emit |-> TRUE,
    behaviors |-> <<Entry("moveSpeedStatic"), Entry("moveSpeedStatic")>> ]
WaveConfigs == {WaveConfig, SpeedWaveConfig}
\* The waves of SpeedWaveConfig with no behavior.
PlainWaveConfig == With(SpeedWaveConfig, "behaviors", <<>>)

Configs == {SteadyConfig, LimitedConfig, NoChanceConfig, CappedConfig, ReapedConfig}

\* The cap of CappedConfig with no random draw: every particle is spawned
\* and lives 3 ticks, and the first wave fills the emitter.
FilledConfig ==
  [ lifetime |-> [min |-> 3, max |-> 3], frequency |-> 2, particlesPerWave |-> 2,
    maxParticles |-> 2, emit |-> TRUE,
    behaviors |-> <<AlphaEntry, Entry("unknown")>> ]
CoreConfigs == {SteadyConfig, LimitedConfig, NoChanceConfig, FilledConfig, ReapedConfig}

\* A configuration with nothing but what init dereferences.
BareConfig == [lifetime |-> [min |-> 1, max |-> 1], behaviors |-> <<>>]

\* Configurations with the library's spawnShape and movePath behaviors:
\* a registered and an unregistered shape type, a rectangle without its
\* data; the path "sin(x)" and the path "round(sin(x) * 2", whose
\* parenthesis is left open.
PathEntry(path) ==
  [type |-> "movePath",
   config |-> [path |-> path,
               speed |-> [list |-> <<[value |-> 4, time |-> 0],
                                     [value |-> 0, time |-> One]>>]]]
GoodPath == <<"s", "i", "n", "(", "x", ")">>
BadPath ==
  <<"r", "o", "u", "n", "d", "(", "s", "i", "n", "(", "x", ")", " ", "*", " ", "2">>
ShapeConfig == With(SteadyConfig, "behaviors", <<AlphaEntry, ShapeEntry("rect")>>)
BadShapeConfig == With(SteadyConfig, "behaviors", <<AlphaEntry, ShapeEntry("blob")>>)
BareShapeConfig == With(SteadyConfig, "behaviors", <<AlphaEntry, BareShapeEntry("rect")>>)
PathConfig == With(SteadyConfig, "behaviors", <<PathEntry(GoodPath)>>)
BadPathConfig == With(SteadyConfig, "behaviors", <<PathEntry(BadPath)>>)

\* Configurations whose behavior dereferences what is not there. In the
\* constructor: an animation without textures, for animatedRandom and for
\* animatedSingle, a color that is a number, an entry without config. In
\* initParticles: animatedRandom with no animation, and a polygonal chain
\* of one point, which has no segment. Those of the first kind do not
\* emit once init has raised.
QuietConfig == With(BriefConfig, "emit", FALSE)
Anim == [framerate |-> 10, loop |-> FALSE, textures |-> <<"a", "b">>]
BareAnim == [framerate |-> 10]
AnimsEntry(anims) == [type |-> "animatedRandom", config |-> [anims |-> anims]]
AnimEntry(anim) == [type |-> "animatedSingle", config |-> [anim |-> anim]]
ColorEntry(color) == [type |-> "colorStatic", config |-> [color |-> color]]
ChainEntry(points) ==
  [type |-> "spawnShape", config |-> [type |-> "polygonalChain", data |-> PointList(points)]]
AnimsConfig == With(SteadyConfig, "behaviors", <<AnimsEntry(<<Anim>>), ColorEntry(Str("ff0000"))>>)
BareAnimsConfig == With(QuietConfig, "behaviors", <<AnimsEntry(<<Anim, BareAnim>>)>>)
BareAnimConfig == With(QuietConfig, "behaviors", <<AnimEntry(BareAnim)>>)
NumberColorConfig == With(QuietConfig, "behaviors", <<ColorEntry(Num(16711680))>>)
NoConfigConfig == With(QuietConfig, "behaviors", <<[type |-> "moveSpeedStatic"]>>)
NoAnimsConfig == With(SteadyConfig, "behaviors", <<AnimsEntry(<<>>)>>)
OnePointConfig ==
  With(SteadyConfig, "behaviors", <<Entry("moveSpeedStatic"), ChainEntry(<<XY(0, 0)>>)>>)
RaisingConstructors == {BareAnimsConfig, BareAnimConfig, NumberColorConfig, NoConfigConfig}
RaisingInits == {NoAnimsConfig, OnePointConfig}

BehaviorConfigs ==
  {FilledConfig, ShapeConfig, BadShapeConfig, BareShapeConfig} \cup RaisingConstructors
PathConfigs == {FilledConfig, PathConfig, BadPathConfig}

\* Those that differ in how emission ends: by emitterLifetime, by the cap
\* and the spawn chance, by emit false at init.
PlayConfigs == {LimitedConfig, CappedConfig, ReapedConfig}

\* --------------------------------------------------------- upgradeConfig
\* A legacy configuration is a record of the fields it has; numbers are
\* integers, 1 being the default alpha and scale. An art value is a texture
\* name, a texture, an animation or an array of these.
Get(obj, f) == IF f \in DOMAIN obj THEN obj[f] ELSE Undefined

\* obj.f === obj.g for two properties that hold numbers or strings when set.
SameValue(obj, f, g) ==
  IF f \in DOMAIN obj /\ g \in DOMAIN obj THEN obj[f] = obj[g]
  ELSE f \notin DOMAIN obj /\ g \notin DOMAIN obj

\* A property that holds a number is set and not 0; optional chaining
\* through a property that holds an object.
TruthyNum(obj, f) == f \in DOMAIN obj /\ obj[f] # 0
TruthyIn(obj, f, g) == f \in DOMAIN obj /\ TruthyNum(obj[f], g)
OrZero(obj, f) == IF TruthyNum(obj, f) THEN obj[f] ELSE 0
OrZeroIn(obj, f, g) == IF TruthyIn(obj, f, g) THEN obj[f][g] ELSE 0
OrOne(obj, f) == IF f \in DOMAIN obj THEN obj[f] ELSE 1

\* The keyframes (start, 0), (end, 1) of a ramp.
Ramp(prop) ==
  [list |-> <<[time |-> 0, value |-> Get(prop, "start")],
              [time |-> One, value |-> Get(prop, "end")]>>]

\* "set up the alpha"
UpgradeAlpha(config) ==
  IF "alpha" \notin DOMAIN config THEN <<>>
  ELSE IF "start" \in DOMAIN config.alpha
  THEN IF SameValue(config.alpha, "start", "end")
       THEN IF config.alpha.start # 1
            THEN <<[type |-> "alphaStatic", config |-> [alpha |-> config.alpha.start]]>>
            ELSE <<>>
       ELSE <<[type |-> "alpha", config |-> [alpha |-> Ramp(config.alpha)]]>>
  ELSE IF Len(config.alpha.list) = 1
  THEN IF config.alpha.list[1].value # 1
       THEN <<[type |-> "alphaStatic", config |-> [alpha |-> config.alpha.list[1].value]]>>
       ELSE <<>>
  ELSE <<[type |-> "alpha", config |-> [alpha |-> config.alpha]]>>

\* "acceleration movement", "path movement", "normal speed movement"
UpgradeMovement(config) ==
  IF "acceleration" \in DOMAIN config
     /\ (TruthyNum(config.acceleration, "x") \/ TruthyNum(config.acceleration, "y"))
  THEN LET first == IF "start" \in DOMAIN config.speed THEN config.speed.start
                    ELSE config.speed.list[1].value
           mult == IF "start" \in DOMAIN config.speed
                   THEN OrOne(config.speed, "minimumSpeedMultiplier")
                   ELSE OrOne(config, "minimumSpeedMultiplier")
       IN  <<[type |-> "moveAcceleration",
              config |-> [accel |-> config.acceleration, minStart |-> first * mult,
                          maxStart |-> first,
                          rotate |-> ~("noRotation" \in DOMAIN config /\ config.noRotation),
                          maxSpeed |-> Get(config, "maxSpeed")]]>>
  ELSE IF "extraData" \in DOMAIN config /\ "path" \in DOMAIN config.extraData
          /\ config.extraData.path # <<>>
  THEN <<[type |-> "movePath",
          config |-> [path |-> config.extraData.path,
                      speed |-> IF "start" \in DOMAIN config.speed
                                THEN IF SameValue(config.speed, "start", "end")
                                     THEN [list |-> <<[time |-> 0,
                                                       value |-> config.speed.start]>>]
                                     ELSE Ramp(config.speed)
                                ELSE config.speed,
                      minMult |-> IF "start" \in DOMAIN config.speed
                                  THEN OrOne(config.speed, "minimumSpeedMultiplier")
                                  ELSE OrOne(config, "minimumSpeedMultiplier")]]>>
  ELSE IF "speed" \notin DOMAIN config THEN <<>>
  ELSE IF "start" \in DOMAIN config.speed
  THEN IF SameValue(config.speed, "start", "end")
       THEN <<[type |-> "moveSpeedStatic",
               config |-> [min |-> config.speed.start
                                     * OrOne(config.speed, "minimumSpeedMultiplier"),
                           max |-> config.speed.start]]>>
       ELSE <<[type |-> "moveSpeed",
               config |-> [speed |-> Ramp(config.speed),
                           minMult |-> Get(config.speed, "minimumSpeedMultiplier")]]>>
  ELSE IF Len(config.speed.list) = 1
  THEN <<[type |-> "moveSpeedStatic",
          config |-> [min |-> config.speed.list[1].value
                                * OrOne(config, "minimumSpeedMultiplier"),
                      max |-> config.speed.list[1].value]]>>
  ELSE <<[type |-> "moveSpeed",
          config |-> [speed |-> config.speed,
                      minMult |-> OrOne(config, "minimumSpeedMultiplier")]]>>

\* The scale block with the test of the default the alpha block has.
UpgradeScaleOmitsDefault(config) ==
  IF "scale" \notin DOMAIN config THEN <<>>
  ELSE IF "start" \in DOMAIN config.scale
  THEN IF SameValue(config.scale, "start", "end")
       THEN IF config.scale.start # 1
            THEN <<[type |-> "scaleStatic",
                    config |-> [min |-> config.scale.start
                                          * OrOne(config.scale, "minimumScaleMultiplier"),
                                max |-> config.scale.start]]>>
            ELSE <<>>
       ELSE <<[type |-> "scale",
               config |-> [scale |-> Ramp(config.scale),
                           minMult |-> OrOne(config.scale, "minimumScaleMultiplier")]]>>
  ELSE IF Len(config.scale.list) = 1
  THEN IF config.scale.list[1].value # 1
       THEN <<[type |-> "scaleStatic",
               config |-> [min |-> config.scale.list[1].value
                                     * OrOne(config, "minimumScaleMultiplier"),
                           max |-> config.scale.list[1].value]]>>
       ELSE <<>>
  ELSE <<[type |-> "scale",
          config |-> [scale |-> config.scale,
                      minMult |-> OrOne(config, "minimumScaleMultiplier")]]>>

\* "scale"
UpgradeScale(config) ==
  IF "scale" \notin DOMAIN config THEN <<>>
  ELSE IF "start" \in DOMAIN config.scale
  THEN IF SameValue(config.scale, "start", "end")
       THEN <<[type |-> "scaleStatic",
               config |-> [min |-> config.scale.start
                                     * OrOne(config.scale, "minimumScaleMultiplier"),
                           max |-> config.scale.start]]>>
       ELSE <<[type |-> "scale",
               config |-> [scale |-> Ramp(config.scale),
                           minMult |-> OrOne(config.scale, "minimumScaleMultiplier")]]>>
  ELSE IF Len(config.scale.list) = 1
  THEN <<[type |-> "scaleStatic",
          config |-> [min |-> config.scale.list[1].value
                                * OrOne(config, "minimumScaleMultiplier"),
                      max |-> config.scale.list[1].value]]>>
  ELSE <<[type |-> "scale",
          config |-> [scale |-> config.scale,
                      minMult |-> OrOne(config, "minimumScaleMultiplier")]]>>

\* "color"
UpgradeColor(config) ==
  IF "color" \notin DOMAIN config THEN <<>>
  ELSE IF "start" \in DOMAIN config.color
  THEN IF SameValue(config.color, "start", "end")
       THEN IF config.color.start # "ffffff"
            THEN <<[type |-> "colorStatic", config |-> [color |-> config.color.start]]>>
            ELSE <<>>
       ELSE <<[type |-> "color", config |-> [color |-> Ramp(config.color)]]>>
  ELSE IF Len(config.color.list) = 1
  THEN IF config.color.list[1].value # "ffffff"
       THEN <<[type |-> "colorStatic", config |-> [color |-> config.color.list[1].value]]>>
       ELSE <<>>
  ELSE <<[type |-> "color", config |-> [color |-> config.color]]>>

\* "rotation", noRotation, "blend mode"
UpgradeRotation(config) ==
  (IF TruthyNum(config, "rotationAcceleration")
      \/ TruthyIn(config, "rotationSpeed", "min")
      \/ TruthyIn(config, "rotationSpeed", "max")
   THEN <<[type |-> "rotation",
           config |-> [accel |-> OrZero(config, "rotationAcceleration"),
                       minSpeed |-> OrZeroIn(config, "rotationSpeed", "min"),
                       maxSpeed |-> OrZeroIn(config, "rotationSpeed", "max"),
                       minStart |-> OrZeroIn(config, "startRotation", "min"),
                       maxStart |-> OrZeroIn(config, "startRotation", "max")]]>>
   ELSE IF TruthyIn(config, "startRotation", "min")
           \/ TruthyIn(config, "startRotation", "max")
   THEN <<[type |-> "rotationStatic",
           config |-> [min |-> OrZeroIn(config, "startRotation", "min"),
                       max |-> OrZeroIn(config, "startRotation", "max")]]>>
   ELSE <<>>)
  \o (IF "noRotation" \in DOMAIN config /\ config.noRotation
      THEN <<[type |-> "noRotation", config |-> [none |-> TRUE]]>> ELSE <<>>)
  \o (IF "blendMode" \in DOMAIN config /\ config.blendMode \notin {"", "normal"}
      THEN <<[type |-> "blendMode", config |-> [blendMode |-> config.blendMode]]>>
      ELSE <<>>)

\* An animation with framerate 'matchLife' gets framerate -1.
MatchLife(anim) ==
  IF anim.kind = "anim" /\ anim.framerate = Str("matchLife")
  THEN [anim EXCEPT !.framerate = Num(0 - 1)] ELSE anim

IsAnims(art) == art.kind = "array" /\ art.items[1].kind = "anim"

\* art as the animated branches leave it.
UpgradedArt(art) ==
  IF IsAnims(art)
  THEN [art EXCEPT !.items = [i \in 1..Len(art.items) |-> MatchLife(art.items[i])]]
  ELSE MatchLife(art)

\* "animated", "ordered art", "random texture", "single texture"
UpgradeArt(config, art) ==
  IF IsAnims(art)
  THEN <<[type |-> "animatedRandom", config |-> [anims |-> UpgradedArt(art)]]>>
  ELSE IF art.kind = "anim"
  THEN <<[type |-> "animatedSingle", config |-> [anim |-> UpgradedArt(art)]]>>
  ELSE IF art.kind = "array" /\ "orderedArt" \in DOMAIN config /\ config.orderedArt
  THEN <<[type |-> "textureOrdered", config |-> [textures |-> art]]>>
  ELSE IF art.kind = "array"
  THEN <<[type |-> "textureRandom", config |-> [textures |-> art]]>>
  ELSE <<[type |-> "textureSingle", config |-> [texture |-> art]]>>

\* "spawn burst", "spawn point", "spawn shape"
UpgradeSpawn(config) ==
  LET spawnType == IF "spawnType" \in DOMAIN config THEN config.spawnType ELSE ""
  IN  IF spawnType = "burst"
      THEN <<[type |-> "spawnBurst",
              config |-> [start |-> OrZero(config, "angleStart"),
                          spacing |-> Get(config, "particleSpacing"),
                          distance |-> 0]]>>
      ELSE IF spawnType = "point"
      THEN <<[type |-> "spawnPoint", config |-> [none |-> TRUE]]>>
      ELSE IF spawnType \in {"ring", "circle"}
      THEN <<[type |-> "spawnShape",
              config |-> [type |-> "torus",
                          data |-> [x |-> config.spawnCircle.x,
                                    y |-> config.spawnCircle.y,
                                    radius |-> config.spawnCircle.r,
                                    innerRadius |-> IF spawnType = "ring"
                                                    THEN Get(config.spawnCircle, "minR")
                                                    ELSE Num(0),
                                    affectRotation |-> spawnType = "ring"]]]>>
      ELSE IF spawnType = "rect"
      THEN <<[type |-> "spawnShape",
              config |-> [type |-> "rect", data |-> Get(config, "spawnRect")]]>>
      ELSE IF spawnType = "polygonalChain"
      THEN <<[type |-> "spawnShape",
              config |-> [type |-> "polygonalChain",
                          data |-> Get(config, "spawnPolygon")]]>>
      ELSE <<>>

\* upgradeConfig without its test for a behaviors key.
upgradeConfigAlways(config, art) ==
  [ lifetime |-> Get(config, "lifetime"), ease |-> Get(config, "ease"),
    particlesPerWave |-> Get(config, "particlesPerWave"),
    frequency |-> Get(config, "frequency"),
    spawnChance |-> Get(config, "spawnChance"),
    emitterLifetime |-> Get(config, "emitterLifetime"),
    maxParticles |-> Get(config, "maxParticles"),
    addAtBack |-> Get(config, "addAtBack"), pos |-> Get(config, "pos"),
    emit |-> Get(config, "emit"), autoUpdate |-> Get(config, "autoUpdate"),
    behaviors |-> UpgradeAlpha(config) \o UpgradeMovement(config)
                  \o UpgradeScale(config) \o UpgradeColor(config)
                  \o UpgradeRotation(config) \o UpgradeArt(config, art)
                  \o UpgradeSpawn(config) ]

\* upgradeConfig(config, art)
upgradeConfig(config, art) ==
  IF "behaviors" \in DOMAIN config THEN config
  ELSE
  [ lifetime |-> Get(config, "lifetime"), ease |-> Get(config, "ease"),
    particlesPerWave |-> Get(config, "particlesPerWave"),
    frequency |-> Get(config, "frequency"),
    spawnChance |-> Get(config, "spawnChance"),
    emitterLifetime |-> Get(config, "emitterLifetime"),
    maxParticles |-> Get(config, "maxParticles"),
    addAtBack |-> Get(config, "addAtBack"), pos |-> Get(config, "pos"),
    emit |-> Get(config, "emit"), autoUpdate |-> Get(config, "autoUpdate"),
    behaviors |-> UpgradeAlpha(config) \o UpgradeMovement(config)
                  \o UpgradeScale(config) \o UpgradeColor(config)
                  \o UpgradeRotation(config) \o UpgradeArt(config, art)
                  \o UpgradeSpawn(config) ]

\* The art values: a texture, an array of textures, an animation whose
\* framerate is 'matchLife', an array of animations.
Texture == [kind |-> "texture"]
Animation(framerate) == [kind |-> "anim", framerate |-> framerate]
Arts == { Texture, [kind |-> "array", items |-> <<Texture, Texture>>],
          Animation(Str("matchLife")),
          [kind |-> "array", items |-> <<Animation(Num(30)), Animation(Str("matchLife"))>>] }

\* ------------------------------------------------------- reading the lists
\* The particles reached from x by following next, at most fuel of them.
RECURSIVE Walk(_, _, _)
Walk(p, x, fuel) ==
  IF x = Null \/ fuel = 0 THEN <<>> ELSE <<x>> \o Walk(p, p[x].next, fuel - 1)

Range(seq) == {seq[i] : i \in DOMAIN seq}
ActiveSeq == Walk(particle, emitter._activeParticlesFirst, MaxAlloc + 1)
PoolSeq == Walk(particle, emitter._poolFirst, MaxAlloc + 1)
ActiveSet == Range(ActiveSeq)
PoolSet == Range(PoolSeq)
Allocated == 1..allocated

\* --------------------------------------------------------------- actions
\* The draws a call may make: none are used when there is nothing to draw.
Draws == IF emitter.spawnChance >= One /\ emitter.minLifetime = emitter.maxLifetime
         THEN {NoRand} ELSE RandSeqs

\* hist.elapsed: the sum of the deltas of the update calls since the last
\* init, or -1 once anything but update with a positive delta was called or
\* the sum passed MaxElapsed; hist.unit: every one of these deltas was 1.
Dirty == [elapsed |-> 0 - 1, unit |-> FALSE]
Fresh == [elapsed |-> 0, unit |-> TRUE]
Later(h, delta) ==
  IF h.elapsed >= 0 /\ delta > 0 /\ h.elapsed + delta <= MaxElapsed
  THEN [elapsed |-> h.elapsed + delta, unit |-> h.unit /\ delta = 1]
  ELSE Dirty

\* The state keeps the age, maxLife and agePercent of the active particles
\* only: those of a particle outside the active list are read by no code
\* before Particle.init overwrites them. particle.config outlives recycle
\* in the pool; a particle in neither list is reached by no code.
Kept(w) ==
  LET active == Range(Walk(w.p, w.e._activeParticlesFirst, MaxAlloc + 1))
      pooled == Range(Walk(w.p, w.e._poolFirst, MaxAlloc + 1))
  IN  [i \in PIDs |->
         IF i \in active THEN w.p[i]
         ELSE [w.p[i] EXCEPT !.age = 0, !.maxLife = 0, !.agePercent = 0,
                             !.config = IF i \in pooled THEN @ ELSE {}]]

\* What one call of the trace adds to the sums: a spawn starts them at 0
\* for the n update-behaviors, updateParticle adds its deltaSec, recycle
\* ends them.
FeedOne(f, event, n) ==
  IF event.ev = "spawn" THEN [f EXCEPT ![event.p] = [i \in 1..n |-> 0]]
  ELSE IF event.ev = "recycle" THEN [f EXCEPT ![event.p] = <<>>]
  ELSE IF event.ev = "update" /\ event.b \in DOMAIN f[event.p]
  THEN [f EXCEPT ![event.p][event.b] = @ + event.dt]
  ELSE f

RECURSIVE FeedAll(_, _, _, _)
FeedAll(f, trace, k, n) ==
  IF k > Len(trace) THEN f
  ELSE Then(FeedOne(f, trace[k], n), LAMBDA g : FeedAll(g, trace, k + 1, n))

\* The sums after the operation that ends in w.
Fed(w) ==
  LET active == Range(Walk(w.p, w.e._activeParticlesFirst, MaxAlloc + 1))
      f == FeedAll(fed, w.calls, 1, Len(w.e.updateBehaviors))
  IN  [x \in PIDs |-> IF x \in active THEN f[x] ELSE <<>>]

Commit(w, name, arg, h) ==
  /\ ~op.hung
  /\ ~w.over
  /\ emitter' = w.e
  /\ particle' = Kept(w)
  /\ allocated' = w.n
  /\ op' = [name |-> name, arg |-> arg, err |-> w.err,
            slots |-> w.slots, hung |-> w.hung]
  /\ log' = w.log
  /\ calls' = w.calls
  /\ fed' = Fed(w)
  /\ cbCalls' = w.cb
  /\ hist' = h
  /\ UNCHANGED <<misused, apartFromEmitter>>

\* ------------------------------------------------------------ debounce
\* Time is counted in ticks. A timer set at time t with delay d is due at
\* t + d and runs at that time or later, when the event loop gets to it:
\* until then time may pass and the returned function may be called again,
\* which clears the timer. Timer ids are counted from 1; id 0 is the timer
\* variable before its first assignment (undefined), which clearTimeout
\* ignores. Two fields are kept for the properties only: ran, the ids of
\* the timers that have run, and late, whether time has passed or a call
\* was made while a timer was due.
NoTimer == 0

\* debounce(callback, delay): callback itself when delay <= 0, else the
\* function that restarts the timer.
debounce(delay) ==
  [ made |-> TRUE, delay |-> delay, isCallback |-> delay <= 0, timer |-> NoTimer,
    ids |-> 0, pending |-> {}, now |-> 0, calls |-> <<>>, invoked |-> <<>>,
    ran |-> <<>>, late |-> FALSE ]

\* Before debounce is called.
NoDebouncer == [made |-> FALSE]

\* clearTimeout(id), setTimeout(() => callback(...args), delay)
clearTimeout(d, id) == [d EXCEPT !.pending = {t \in @ : t.id # id}]
setTimeout(d, args) ==
  [d EXCEPT !.ids = @ + 1,
            !.pending = @ \cup {[id |-> d.ids + 1, due |-> d.now + d.delay, args |-> args]}]

\* callback(...args)
callback(d, args) == [d EXCEPT !.invoked = Append(@, [at |-> d.now, args |-> args])]

\* The returned function without its clearTimeout.
debouncedKeepsTimer(d, args) ==
  LET called == [d EXCEPT !.calls = Append(@, [at |-> d.now, args |-> args])]
  IN  IF d.isCallback THEN callback(called, args)
      ELSE [setTimeout(called, args) EXCEPT !.timer = called.ids + 1]

\* The function debounce returned, called with args.
debounced(d, args) ==
  LET called == [d EXCEPT !.calls = Append(@, [at |-> d.now, args |-> args])]
  IN  IF d.isCallback THEN callback(called, args)
      ELSE [setTimeout(clearTimeout(called, called.timer), args)
              EXCEPT !.timer = called.ids + 1]

\* A pending timer that is due.
DueTimers(d) == {t \in d.pending : t.due <= d.now}

\* ------------------------------------------------------- two emitters
\* Configurations with spawnChance 1 (the default), one fixed lifetime, a
\* cap that is not reached, no behavior and a spawn position that never
\* moves; with and without an emitter lifetime.
TwinLifetimes == 1..3
TwinFrequencies == 1..2
TwinBase(lifetime, frequency) ==
  [ lifetime |-> [min |-> lifetime, max |-> lifetime], frequency |-> frequency,
    particlesPerWave |-> 1, maxParticles |-> 5, emit |-> TRUE, behaviors |-> <<>> ]
TwinConfigs ==
  {TwinBase(l, f) : l \in TwinLifetimes, f \in TwinFrequencies}
    \cup {With(TwinBase(l, 1), "emitterLifetime", 2) : l \in TwinLifetimes}

\* An emitter of its own: its fields, its particles, and the time driven.
Twin(w, total) == [e |-> w.e, p |-> Kept(w), n |-> w.n, total |-> total]
TwinWorld(t) == [World(NoRand) EXCEPT !.e = t.e, !.p = t.p, !.n = t.n, !.cb = 0]
NewTwin ==
  [e |-> NewEmitter, p |-> [i \in PIDs |-> NewParticle], n |-> 0, total |-> 0]
\* Before either is constructed.
NewTwins == [started |-> FALSE]

\* The ages of the active particles of an emitter, as a multiset.
Ages(t) ==
  LET active == Range(Walk(t.p, t.e._activeParticlesFirst, MaxAlloc + 1))
  IN  [g \in {t.p[x].age : x \in active} |->
         Cardinality({x \in active : t.p[x].age = g})]

\* No interpolate call since the list was reset.
NotCalled == [lerp |-> 0, result |-> Returns(0), called |-> FALSE,
              of |-> [list |-> <<>>, isStepped |-> FALSE]]

Init ==
  /\ knownBehaviors = LibraryBehaviors
  /\ emitter = NewEmitter
  /\ particle = [i \in PIDs |-> NewParticle]
  /\ allocated = 0
  /\ op = [name |-> "new", arg |-> 0, err |-> FALSE, slots |-> 0, hung |-> FALSE]
  /\ log = <<>>
  /\ calls = <<>>
  /\ fed = [x \in PIDs |-> <<>>]
  /\ cbCalls = 0
  /\ hist = Dirty
  /\ misused = FALSE
  /\ propertyList = [list |-> NewPropertyList,
                     data |-> [list |-> <<>>, isStepped |-> FALSE]]
  /\ interpolated = NotCalled
  /\ upgraded = [called |-> FALSE, again |-> FALSE, config |-> BareConfig,
                 art |-> Texture, out |-> BareConfig, artAfter |-> Texture]
  /\ stage = NewStage
  /\ comp = NewComp
  /\ twins = NewTwins
  /\ debouncer = NoDebouncer
  /\ chain = [shape |-> PolygonalChain(NoData), data |-> NoData, inits |-> 1,
              called |-> FALSE,
              r |-> 0, out |-> Placed(0, Quotient(0, 1), Quotient(0, 1), Quotient(0, 1))]

\* Emitter.registerBehavior(constructor) with a class of the application.
RegisterBehavior(type) ==
  /\ ~op.hung
  /\ knownBehaviors' = registerBehavior(knownBehaviors, type)
  /\ op' = [name |-> "registerBehavior", arg |-> 0, err |-> FALSE,
            slots |-> 0, hung |-> FALSE]
  /\ log' = <<>>
  /\ calls' = <<>>
  /\ UNCHANGED <<emitter, particle, allocated, fed, cbCalls, hist, misused>>
  /\ UNCHANGED <<comp, twins, debouncer, chain, stage, upgraded, listVars>>

\* emitter.init(config); on a destroyed emitter it raises midway.
InitEmitter(config) ==
  Commit(init(World(NoRand), config), "init", 0,
         IF emitter.ownerPos = NullRef THEN Dirty ELSE Fresh)

\* What ticker.elapsedMS may hold when update reads it.
ElapsedMS == {1000 * d : d \in 0..MaxDelta}

\* emitter.update(delta), by the host or by the shared ticker; it draws
\* only in its spawning block. op.arg is the delta it works with.
UpdateWith(delta) ==
  \E rnd \in (IF emitter._emit THEN Draws ELSE {NoRand}) :
    \E ms \in (IF emitter._autoUpdate THEN ElapsedMS ELSE {0}) :
      \E w \in {update([World(rnd) EXCEPT !.elapsedMS = ms], delta)} :
        Commit(w, "update", w.delta, Later(hist, w.delta))

\* emitter.update(delta) with a number.
Update(delta) == UpdateWith(Seconds(delta))

\* emitter.update(ticker) with a Ticker.
TickerUpdate(deltaTime) == UpdateWith(TickerOf(deltaTime))

\* emitter.emitNow()
EmitNow == \E rnd \in Draws : Commit(emitNow(World(rnd)), "emitNow", 0, Dirty)

\* emitter.fillPool(1)
FillPool == Commit(fillPool(World(NoRand), 1), "fillPool", 1, Dirty)

\* particle.kill() on an active particle
Kill(x) ==
  /\ x \in ActiveSet
  /\ Commit(recycle(World(NoRand), x, "kill"), "kill", x, Dirty)

\* emitter.cleanup()
Cleanup == Commit(cleanup(World(NoRand)), "cleanup", 0, Dirty)

\* emitter.emit = value
SetEmit(value) ==
  Commit(SetEmitField(World(NoRand), value), "emit", IF value THEN 1 ELSE 0, Dirty)

\* emitter.autoUpdate = value
SetAutoUpdate(value) ==
  Commit(SetAutoUpdateField(World(NoRand), value), "autoUpdate",
         IF value THEN 1 ELSE 0, Dirty)

\* emitter.spawnChance = value
SetSpawnChance(value) ==
  Commit([World(NoRand) EXCEPT !.e.spawnChance = value], "spawnChance", value, Dirty)

\* emitter.playOnce(callback)
PlayOnce ==
  LET w == SetEmitField(World(NoRand), TRUE)
  IN  Commit([w EXCEPT !.e._completeCallback = TRUE, !.cb = 0], "playOnce", 0, Dirty)

\* emitter.playOnceAndDestroy(callback)
PlayOnceAndDestroy ==
  LET w == SetEmitField(SetAutoUpdateField(World(NoRand), TRUE), TRUE)
  IN  Commit([w EXCEPT !.e._destroyWhenComplete = TRUE,
                        !.e._completeCallback = TRUE, !.cb = 0],
             "playOnceAndDestroy", 0, Dirty)

\* emitter.destroy()
Destroy == Commit(destroy(World(NoRand)), "destroy", 0, Dirty)

\* emitter.frequency = value
SetFrequency(value) ==
  Commit(setFrequency(World(NoRand), value), "frequency", value, Dirty)

\* emitter.update(delta) after a very long pause
LongUpdate == Update(Huge)

\* emitter.updateOwnerPos(x, 0)
UpdateOwnerPos(x) ==
  Commit(updateOwnerPos(World(NoRand), x), "updateOwnerPos", x, Dirty)

\* emitter.updateSpawnPos(x, 0)
UpdateSpawnPos(x) ==
  Commit(updateSpawnPos(World(NoRand), x), "updateSpawnPos", x, Dirty)

\* emitter.rotate(newRot)
Rotate(newRot) ==
  Commit(rotate(World(NoRand), newRot), "rotate", newRot, Dirty)

\* emitter.resetPositionTracking()
ResetPositionTracking ==
  Commit(resetPositionTracking(World(NoRand)), "resetPositionTracking", 0, Dirty)

\* emitter.parent = value
SetParent(value) ==
  Commit(SetParentField(World(NoRand), value), "parent", IF value THEN 1 ELSE 0, Dirty)

\* particle.kill() on a particle that lies in the pool
KillPooled(x) ==
  /\ x \in PoolSet
  /\ emitter' = recycle(World(NoRand), x, "kill").e
  /\ particle' = Kept(recycle(World(NoRand), x, "kill"))
  /\ op' = [name |-> "kill", arg |-> x, err |-> FALSE, slots |-> 0, hung |-> FALSE]
  /\ log' = recycle(World(NoRand), x, "kill").log
  /\ calls' = recycle(World(NoRand), x, "kill").calls
  /\ fed' = Fed(recycle(World(NoRand), x, "kill"))
  /\ hist' = Dirty
  /\ misused' = TRUE
  /\ UNCHANGED <<allocated, cbCalls, apartFromEmitter>>

\* The operations on the particles.
Next ==
  \/ \E config \in CoreConfigs : InitEmitter(config)
  \/ \E delta \in Deltas : Update(delta)
  \/ EmitNow
  \/ FillPool
  \/ \E x \in PIDs : Kill(x)
  \/ Cleanup

Spec == Init /\ [][Next]_vars

\* Emission switched on and off. Once the host drives an emitter whose emit
\* is false with a positive delta, it goes on calling update with positive
\* deltas (the ticker, or the host's frame loop) until no particle is left.
Draining ==
  /\ emitter._parent /\ ~emitter._emit /\ emitter._activeParticlesFirst # Null
  /\ op.name = "update" /\ op.arg > 0

UpdateForward == \E delta \in 1..MaxDelta : Update(delta)

NextEmit ==
  \/ ~Draining /\ \E config \in PlayConfigs : InitEmitter(config)
  \/ ~Draining /\ \E delta \in Deltas : Update(delta)
  \/ ~Draining /\ EmitNow
  \/ ~Draining /\ \E value \in BOOLEAN : SetEmit(value)
  \/ Draining /\ UpdateForward

SpecEmit == Init /\ [][NextEmit]_vars /\ WF_vars(Draining /\ UpdateForward)

\* The application registers its class when it loads, before it calls the
\* emitter, and initializes the emitter once the class is registered.
AtLoad == op.name \in {"new", "registerBehavior"}
Loaded == "reaper" \in knownBehaviors

\* The same on the configurations whose particles all live two ticks.
NextEmitOff ==
  \/ ~Draining /\ Loaded /\ \E config \in {BriefConfig, ReapedConfig} :
                               InitEmitter(config)
  \/ ~Draining /\ \E delta \in Deltas : Update(delta)
  \/ ~Draining /\ EmitNow
  \/ ~Draining /\ \E value \in BOOLEAN : SetEmit(value)
  \/ AtLoad /\ RegisterBehavior("reaper")
  \/ Draining /\ UpdateForward

SpecEmitOff == Init /\ [][NextEmitOff]_vars /\ WF_vars(Draining /\ UpdateForward)

\* The same together with kill() on pooled particles; the run is followed
\* up to the first such call.
NextKill ==
  \/ ~misused /\ \E config \in {LimitedConfig, ReapedConfig} : InitEmitter(config)
  \/ ~misused /\ \E delta \in Deltas : Update(delta)
  \/ ~misused /\ EmitNow
  \/ ~misused /\ FillPool
  \/ ~misused /\ \E x \in PIDs : Kill(x)
  \/ ~misused /\ Cleanup
  \/ ~misused /\ \E x \in PIDs : KillPooled(x)

SpecKill == Init /\ [][NextKill]_vars

\* init and update, with spawnChance assigned directly.
NextChance ==
  \/ \E config \in Configs : InitEmitter(config)
  \/ \E delta \in Deltas : Update(delta)
  \/ \E value \in {0, One} : SetSpawnChance(value)

SpecChance == Init /\ [][NextChance]_vars

\* The operations around the completion callback.
NextPlay ==
  \/ \E config \in {BriefConfig, ReapedConfig} : InitEmitter(config)
  \/ \E delta \in Deltas : Update(delta)
  \/ SetEmit(FALSE)
  \/ PlayOnce
  \/ PlayOnceAndDestroy

SpecPlay == Init /\ [][NextPlay]_vars

\* The spawn timer: frequencies of every kind, short and long deltas.
GoodFrequencies == {Num(1), Num(2)}
BadFrequencies == {Num(0), Num(0 - 1), NaN, Undefined, String}

NextFrequency ==
  \/ \E config \in Configs \cup {BareConfig} : InitEmitter(config)
  \/ \E delta \in Deltas : Update(delta)
  \/ LongUpdate
  \/ \E value \in GoodFrequencies \cup BadFrequencies : SetFrequency(value)

SpecFrequency == Init /\ [][NextFrequency]_vars

\* Destroying the emitter, and using it afterwards.
NextDestroy ==
  \/ InitEmitter(BriefConfig)
  \/ \E delta \in Deltas : Update(delta)
  \/ FillPool
  \/ Destroy
  \/ \E value \in BOOLEAN : SetParent(value)
  \/ \E value \in BOOLEAN : SetAutoUpdate(value)
  \/ \E deltaTime \in {1} : TickerUpdate(deltaTime)

SpecDestroy == Init /\ [][NextDestroy]_vars

\* The spawn timer of an emitter that is switched on and off, loses its
\* parent and is destroyed; its frequency is that of its configuration.
NextTimer ==
  \/ \E config \in {LimitedConfig, PlainWaveConfig, ReapedConfig} : InitEmitter(config)
  \/ \E delta \in Deltas : Update(delta)
  \/ \E value \in BOOLEAN : SetEmit(value)
  \/ \E value \in BOOLEAN : SetParent(value)
  \/ Destroy

SpecTimer == Init /\ [][NextTimer]_vars

\* The emitter-life budget: emitterLifetime 2 spent in slots of 1 and 3
\* spent in slots of 2 (the emitter that was never initialized has none);
\* emit assigned at any time.
BudgetConfigs == {LimitedConfig, With(PlainWaveConfig, "emitterLifetime", 3)}

NextBudget ==
  \/ \E config \in BudgetConfigs : InitEmitter(config)
  \/ \E delta \in Deltas : Update(delta)
  \/ \E value \in BOOLEAN : SetEmit(value)
  \/ PlayOnce

SpecBudget == Init /\ [][NextBudget]_vars

\* new Emitter(parent, config) twice.
StartTwins(config) ==
  \E w \in {init(TwinWorld(NewTwin), config)} :
    /\ ~w.err
    /\ twins' = [config |-> config, started |-> TRUE, a |-> Twin(w, 0), b |-> Twin(w, 0)]
    /\ UNCHANGED apartFromTwins

\* update(delta) with a positive delta on one of the two, while the call
\* ends and needs no more than MaxAlloc particles.
UpdateTwin(which, delta) ==
  /\ twins.started
  /\ delta > 0
  /\ twins[which].total + delta <= MaxTotal
  /\ \E w \in {update(TwinWorld(twins[which]), Seconds(delta))} :
       /\ ~w.over /\ ~w.hung /\ ~w.err
       /\ twins' = [twins EXCEPT ![which] = Twin(w, twins[which].total + delta)]
  /\ UNCHANGED apartFromTwins

NextTwins ==
  \/ \E config \in TwinConfigs : StartTwins(config)
  \/ \E delta \in Deltas : UpdateTwin("a", delta)
  \/ \E delta \in Deltas : UpdateTwin("b", delta)

SpecTwins == Init /\ [][NextTwins]_vars

\* debounce(callback, delay) with a delay below, at and above 0.
DebounceDelays == (0 - 1)..2
DebounceArgs == {"a", "b"}

Debounce(delay) ==
  /\ debouncer' = debounce(delay)
  /\ UNCHANGED apartFromDebouncer

\* A call of the returned function; a timer that is due runs first.
CallDebounced(args) ==
  /\ debouncer.made
  /\ Len(debouncer.calls) < MaxCalls
  /\ debouncer' = [debounced(debouncer, args)
                     EXCEPT !.late = @ \/ DueTimers(debouncer) # {}]
  /\ UNCHANGED apartFromDebouncer

\* A timer that is due runs its function, () => callback(...args).
RunTimer ==
  /\ debouncer.made
  /\ \E t \in DueTimers(debouncer) :
       debouncer' = callback([debouncer EXCEPT !.pending = @ \ {t},
                                               !.ran = Append(@, t.id)], t.args)
  /\ UNCHANGED apartFromDebouncer

\* Time passes while no timer is due.
Tick ==
  /\ debouncer.made
  /\ debouncer.now < MaxTime
  /\ debouncer' = [debouncer EXCEPT !.now = @ + 1,
                                    !.late = @ \/ DueTimers(debouncer) # {}]
  /\ UNCHANGED apartFromDebouncer

NextDebounce ==
  \/ \E delay \in DebounceDelays : Debounce(delay)
  \/ \E args \in DebounceArgs : CallDebounced(args)
  \/ RunTimer
  \/ Tick

SpecDebounce == Init /\ [][NextDebounce]_vars

\* The keyframe lists a PropertyList is reset with: up to MaxKeyframes
\* keyframes with values of KeyValues at rising times of KeyTimes, stepped
\* or not. The fractions interpolate is called with are the Lerps.
KeyValues == {0, 4, 8}
KeyTimes == {0, 50, One}
Lerps == {0, 25, 50, 75, One}
Keyframes == [value : KeyValues, time : KeyTimes]
KeyframeLists ==
  {array \in UNION {[1..n -> Keyframes] : n \in 1..Min(MaxKeyframes, Cardinality(KeyTimes))} :
     \A i \in 1..(Len(array) - 1) : array[i].time < array[i + 1].time}
ListData == [list : KeyframeLists, isStepped : BOOLEAN]

\* list.reset(PropertyNode.createList(data))
ResetList(data) ==
  /\ propertyList' = [list |-> reset(createList(data)), data |-> data]
  /\ interpolated' = NotCalled
  /\ UNCHANGED apartFromList

\* list.interpolate(lerp)
Interpolate(lerp) ==
  /\ interpolated' = [lerp |-> lerp, result |-> interpolate(propertyList.list, lerp),
                      called |-> TRUE, of |-> propertyList.data]
  /\ UNCHANGED <<propertyList, apartFromList>>

\* A property list reset and read.
NextList ==
  \/ \E data \in ListData : ResetList(data)
  \/ \E lerp \in Lerps : Interpolate(lerp)

SpecList == Init /\ [][NextList]_vars

\* The legacy configurations upgradeConfig is called with: one of alpha,
\* scale and color, or all three, as a ramp, a list of one keyframe or a
\* list of two, with values up to MaxLegacyValue (1 is the default alpha
\* and scale) and the colors white (the default) and red; and some with
\* the fields of the other blocks.
LegacyValues == 1..MaxLegacyValue
LegacyColors == {"ffffff", "ff0000"}
Absent == [absent |-> TRUE]
PropsOver(values, other) ==
  {[start |-> a, end |-> b] : a \in values, b \in values}
  \cup {[list |-> <<[value |-> a, time |-> 0]>>] : a \in values}
  \cup {[list |-> <<[value |-> a, time |-> 0], [value |-> other, time |-> One]>>] :
          a \in values}
  \cup {Absent}
WithOptional(config, field, value) ==
  IF value = Absent THEN config ELSE With(config, field, value)
LegacyBase == [lifetime |-> [min |-> 1, max |-> 1], frequency |-> 1]
RampConfigs ==
  {WithOptional(LegacyBase, "alpha", a) : a \in PropsOver(LegacyValues, 0)}
  \cup {WithOptional(LegacyBase, "scale", sc) : sc \in PropsOver(LegacyValues, 0)}
  \cup {With(WithOptional(LegacyBase, "scale", sc), "minimumScaleMultiplier", 2) :
           sc \in PropsOver(LegacyValues, 0)}
  \cup {WithOptional(LegacyBase, "color", c) : c \in PropsOver(LegacyColors, "000000")}
  \cup {WithOptional(WithOptional(WithOptional(LegacyBase, "alpha", a), "scale", a),
                      "color", [start |-> "ff0000", end |-> "ff0000"]) :
           a \in PropsOver(LegacyValues, 0)}
OtherLegacyConfigs ==
  { [lifetime |-> [min |-> 1, max |-> 1], acceleration |-> [x |-> 1, y |-> 0],
     speed |-> [start |-> 2, end |-> 2], noRotation |-> TRUE, spawnType |-> "burst",
     scale |-> [start |-> 1, end |-> 1, minimumScaleMultiplier |-> 2]],
    [lifetime |-> [min |-> 1, max |-> 1], extraData |-> [path |-> GoodPath],
     speed |-> [start |-> 1, end |-> 2], spawnType |-> "ring",
     spawnCircle |-> [x |-> 0, y |-> 0, r |-> 2, minR |-> Num(1)]],
    [lifetime |-> [min |-> 1, max |-> 1],
     speed |-> [list |-> <<[value |-> 2, time |-> 0]>>],
     rotationSpeed |-> [min |-> 1, max |-> 2], blendMode |-> "add",
     spawnType |-> "rect", minimumSpeedMultiplier |-> 2],
    [lifetime |-> [min |-> 1, max |-> 1],
     speed |-> [list |-> <<[value |-> 2, time |-> 0], [value |-> 0, time |-> One]>>],
     startRotation |-> [min |-> 1, max |-> 1], spawnType |-> "point",
     orderedArt |-> TRUE],
    [lifetime |-> [min |-> 1, max |-> 1], speed |-> [start |-> 1, end |-> 2],
     spawnType |-> "circle", spawnCircle |-> [x |-> 0, y |-> 0, r |-> 2]],
    [lifetime |-> [min |-> 1, max |-> 1], speed |-> [start |-> 1, end |-> 1],
     spawnType |-> "polygonalChain"],
    [lifetime |-> [min |-> 1, max |-> 1], extraData |-> [path |-> GoodPath],
     speed |-> [start |-> 2, end |-> 2]],
    [lifetime |-> [min |-> 1, max |-> 1], extraData |-> [path |-> GoodPath],
     speed |-> [list |-> <<[value |-> 2, time |-> 0], [value |-> 1, time |-> 50],
                           [value |-> 0, time |-> One]>>]] }
LegacyConfigs == RampConfigs \cup OtherLegacyConfigs

\* art as upgradeConfig(config, art) leaves it: untouched when config has
\* a behaviors key, since the call returns before it reads art.
ArtAfter(config, art) ==
  IF "behaviors" \in DOMAIN config THEN art ELSE UpgradedArt(art)

\* upgradeConfig(config, art)
Upgrade(config, art) ==
  /\ upgraded' = [called |-> TRUE, again |-> FALSE, config |-> config, art |-> art,
                  out |-> upgradeConfig(config, art), artAfter |-> ArtAfter(config, art)]
  /\ UNCHANGED apartFromUpgrade

\* upgradeConfig(out, art) on what the last call returned.
UpgradeAgain ==
  /\ upgraded.called
  /\ upgraded' = [called |-> TRUE, again |-> TRUE, config |-> upgraded.out,
                  art |-> upgraded.artAfter,
                  out |-> upgradeConfig(upgraded.out, upgraded.artAfter),
                  artAfter |-> ArtAfter(upgraded.out, upgraded.artAfter)]
  /\ UNCHANGED apartFromUpgrade

\* Configurations of both schemas upgraded.
NextUpgrade ==
  \/ \E config \in LegacyConfigs, art \in Arts : Upgrade(config, art)
  \/ \E config \in Configs, art \in Arts : Upgrade(config, art)
  \/ UpgradeAgain

SpecUpgrade == Init /\ [][NextUpgrade]_vars

\* The viewports a resize reports: multiples of half the stage's width and
\* height, and one pixel less than twice them.
ViewportWidths ==
  {(i * stageDims.width) \div 2 : i \in 0..MaxViewport} \cup {2 * stageDims.width - 1}
ViewportHeights ==
  {(i * stageDims.height) \div 2 : i \in 0..MaxViewport} \cup {2 * stageDims.height - 1}

\* The ResizeObserver callback: onStageResize with the rounded size.
OnStageResize(width, height) ==
  /\ stage' = onStageResize(stage, width, height)
  /\ UNCHANGED apartFromStage

\* The window's resize event.
OnResize(innerWidth, innerHeight) ==
  /\ stage' = onResize(stage, innerWidth, innerHeight)
  /\ UNCHANGED apartFromStage

NextStage ==
  \/ \E width \in ViewportWidths, height \in ViewportHeights :
       OnStageResize(width, height)
  \/ \E width \in ViewportWidths, height \in ViewportHeights :
       OnResize(width, height)

SpecStage == Init /\ [][NextStage]_vars

\* Chains over three points at distances 3, 4 and 5: one list of up to
\* MaxPoints points, or one or two chains of up to two points each.
ChainPoints == {XY(0, 0), XY(3, 0), XY(3, 4)}
PointLists(n) == UNION {[1..k -> ChainPoints] : k \in 0..n}
ChainData ==
  {NoData}
    \cup {PointList(points) : points \in PointLists(MaxPoints)}
    \cup {ChainList(<<a>>) : a \in PointLists(2)}
    \cup {ChainList(<<a, b>>) : a \in PointLists(2), b \in PointLists(2)}
ChainDraws == {0, 50, 99}

\* new PolygonalChain(data)
NewChain(data) ==
  /\ chain' = [shape |-> PolygonalChain(data), data |-> data, inits |-> 1,
               called |-> FALSE,
               r |-> 0, out |-> Placed(0, Quotient(0, 1), Quotient(0, 1), Quotient(0, 1))]
  /\ UNCHANGED apartFromChain

\* The data init is called with on a chain that was constructed: none, one
\* point, and two points a distance of 3 or 4 apart.
InitData ==
  { NoData, PointList(<<XY(3, 0)>>), PointList(<<XY(0, 0), XY(3, 0)>>),
    PointList(<<XY(3, 0), XY(3, 4)>>) }

\* shape.init(data) on the chain, once more
InitChain(data) ==
  /\ chain.inits = 1
  /\ chain' = [chain EXCEPT !.shape = initChain(chain.shape, data), !.data = data,
                            !.inits = 2, !.called = FALSE]
  /\ UNCHANGED apartFromChain

\* shape.getRandPos(particle) with Math.random() = r
GetRandPos(r) ==
  /\ chain' = [chain EXCEPT !.called = TRUE, !.r = r,
                            !.out = getRandPos(chain.shape, r)]
  /\ UNCHANGED apartFromChain

NextChain ==
  \/ \E data \in ChainData : NewChain(data)
  \/ \E data \in InitData : InitChain(data)
  \/ \E r \in ChainDraws : GetRandPos(r)

SpecChain == Init /\ [][NextChain]_vars

\* The component is mounted, or its effect runs again after its cleanup.
RunEffect ==
  /\ comp.effect = 0 /\ comp.created < MaxInstances
  /\ comp' = runEffect(comp)
  /\ UNCHANGED apartFromComp

ResumeInit(i) ==
  /\ comp.inst[i].init = "pending"
  /\ comp' = resumeInit(comp, i)
  /\ UNCHANGED apartFromComp

RejectInit(i) ==
  /\ comp.inst[i].init = "pending"
  /\ comp' = rejectInit(comp, i)
  /\ UNCHANGED apartFromComp

\* The component is unmounted, or the effect is about to run again.
CleanupEffect ==
  /\ comp.effect # 0
  /\ comp' = cleanupEffect(comp)
  /\ UNCHANGED apartFromComp

DelayedDestroy(i) ==
  /\ comp.inst[i].cleanup = "awaiting" /\ InitAwaited(comp.inst[i])
  /\ comp' = delayedDestroy(comp, i)
  /\ UNCHANGED apartFromComp

NextComp ==
  \/ RunEffect
  \/ \E i \in InstanceIds : ResumeInit(i)
  \/ \E i \in InstanceIds : RejectInit(i)
  \/ CleanupEffect
  \/ \E i \in InstanceIds : DelayedDestroy(i)

SpecComp == Init /\ [][NextComp]_vars

\* The emitter's owner moves between updates.
OwnerPositions == {0, 2, 4}

\* The spawn position is moved, and the emitter turned (in radians).
SpawnPositions == {0, 2}
Rotations == {0, 1}

\* BriefConfig with a position of its own for the emitter.
PosConfig == With(BriefConfig, "pos", Point(2))

NextPosition ==
  \/ \E config \in {BriefConfig, PosConfig} : InitEmitter(config)
  \/ \E delta \in Deltas : Update(delta)
  \/ \E x \in OwnerPositions : UpdateOwnerPos(x)
  \/ \E x \in SpawnPositions : UpdateSpawnPos(x)
  \/ \E newRot \in Rotations : Rotate(newRot)
  \/ ResetPositionTracking
  \/ SetEmit(TRUE)

SpecPosition == Init /\ [][NextPosition]_vars

\* Curves: lists of three and more keyframes that are not stepped, the
\* first at time 0 and the last at time 1. The values are multiples of 12
\* and the fractions multiples of 0.25, so that every interpolation is a
\* whole number.
CurveValues == {0, 12, 24}
CurveTimes == {0, 50, 75, One}
CurveKeyframes == [value : CurveValues, time : CurveTimes]
CurveLists ==
  {array \in UNION {[1..n -> CurveKeyframes] :
                      n \in 3..Min(MaxKeyframes + 1, Cardinality(CurveTimes))} :
     /\ array[1].time = 0 /\ array[Len(array)].time = One
     /\ \A i \in 1..(Len(array) - 1) : array[i].time < array[i + 1].time}
CurveData == [list : CurveLists, isStepped : {FALSE}]

NextCurve ==
  \/ \E data \in CurveData : ResetList(data)
  \/ \E lerp \in Lerps : Interpolate(lerp)

SpecCurve == Init /\ [][NextCurve]_vars

\* Configurations whose behaviors are up to MaxBehaviors different entries
\* in every order: of order Spawn (spawnShape), Normal (reaper, trail),
\* Late (moveSpeedStatic) and Late + 1 (noRotation).
OrderedEntries ==
  {ShapeEntry("rect"), Entry("reaper"), Entry("trail"), Entry("moveSpeedStatic"),
   Entry("noRotation")}
Arrangements ==
  UNION {{list \in [1..n -> OrderedEntries] :
            \A i, j \in 1..n : i # j => list[i] # list[j]} : n \in 0..MaxBehaviors}
OrderedConfigs == {With(SteadyConfig, "behaviors", list) : list \in Arrangements}

\* The application registers classes of its own and then initializes the
\* emitter, once.
NextOrder ==
  \/ AtLoad /\ \E config \in OrderedConfigs : InitEmitter(config)
  \/ AtLoad /\ \E type \in ApplicationBehaviors : RegisterBehavior(type)

SpecOrder == Init /\ [][NextOrder]_vars

\* Waves of particles under behaviors that do and do not signal death.
NextWave ==
  \/ Loaded /\ \E config \in WaveConfigs : InitEmitter(config)
  \/ \E delta \in Deltas : Update(delta)
  \/ EmitNow
  \/ \E x \in PIDs : Kill(x)
  \/ AtLoad /\ RegisterBehavior("reaper")

SpecWave == Init /\ [][NextWave]_vars

\* The emitter configured with behaviors of the library.
NextBehaviors ==
  \/ \E config \in BehaviorConfigs : InitEmitter(config)
  \/ \E delta \in 0..MaxDelta : Update(delta)

SpecBehaviors == Init /\ [][NextBehaviors]_vars

\* The movePath behavior, with a path that parses and one that does not.
NextPath ==
  \/ \E config \in PathConfigs : InitEmitter(config)
  \/ \E delta \in 0..MaxDelta : Update(delta)

SpecPath == Init /\ [][NextPath]_vars

\* The behaviors whose initParticles raises, under update and emitNow.
NextRaise ==
  \/ \E config \in RaisingInits \cup {AnimsConfig} : InitEmitter(config)
  \/ \E delta \in 0..MaxDelta : Update(delta)
  \/ EmitNow

SpecRaise == Init /\ [][NextRaise]_vars

\* An update that raises in a slot returns with _spawnTimer below 0; with a
\* valid previous position and a moved owner the next update(0) divides
\* that timer by 0.
NextStalled ==
  \/ InitEmitter(OnePointConfig)
  \/ \E delta \in 0..1 : Update(delta)
  \/ \E x \in {0, 2} : UpdateOwnerPos(x)
  \/ \E value \in BOOLEAN : SetEmit(value)

SpecStalled == Init /\ [][NextStalled]_vars



\* ================================================================ claims
IsSpawn(i) == log[i].ev = "spawn"
IsRecycle(i) == log[i].ev = "recycle"
IsRecycleFor(i, why) == log[i].ev = "recycle" /\ log[i].why = why
AgesOf(seq) == [i \in DOMAIN seq |-> particle[seq[i]].age]
InRange(pt) == 0 <= pt.age /\ pt.age <= pt.maxLife

\* C1: after any sequence of init, update and emitNow calls (and of the
\* other operations on particles) the number of active particles, counted
\* by particleCount and along the active list, is at most maxParticles.
C1_CountWithinMax ==
  /\ emitter.particleCount <= emitter.maxParticles
  /\ Len(ActiveSeq) <= emitter.maxParticles

\* An update has just spawned the particle that fills the emitter to its cap.
C1_Witness ==
  /\ op.name = "update"
  /\ emitter.particleCount = emitter.maxParticles
  /\ \E i \in DOMAIN log : IsSpawn(i)

\* C3, at the end of an update: every active particle has 0 <= age <= maxLife.
C3_ActiveInRange ==
  (op.name = "update" /\ emitter._parent) =>
    \A x \in ActiveSet : InRange(particle[x])

\* C3, during an update: a particle active at entry is recycled for its age
\* by this call exactly when its age plus delta is above maxLife or below 0.
C3_Step ==
  (op'.name = "update" /\ emitter._parent) =>
    \A x \in ActiveSet :
      LET aged == [particle[x] EXCEPT !.age = @ + op'.arg]
      IN  (~InRange(aged)) <=>
            (\E i \in DOMAIN log' :
               /\ log'[i].ev = "recycle" /\ log'[i].why = "age"
               /\ log'[i].p = x /\ log'[i].age = aged.age)

\* C3: a particle is active iff 0 <= age <= maxLife; a particle whose age
\* leaves the range is recycled by that update call, whether update or
\* emitNow spawned it, for every lifetime and every delta.
C3_ActiveIffInRange == [](C3_ActiveInRange) /\ [][C3_Step]_vars

\* An update has recycled a particle for its age and kept another one.
C3_Witness ==
  /\ op.name = "update"
  /\ \E i \in DOMAIN log : IsRecycleFor(i, "age")
  /\ \E x \in ActiveSet : \A i \in DOMAIN log : log[i].p # x

\* C4: a spawn that finds the pool non-empty uses the pool's head and
\* constructs nothing; a particle is constructed only when the pool is
\* empty; a particle recycled right before a spawn is the one spawned.
C4_PoolReuse ==
  \A i \in DOMAIN log :
    IsSpawn(i) =>
      /\ log[i].poolHead # Null => (log[i].p = log[i].poolHead /\ log[i].nAfter = log[i].n)
      /\ log[i].poolHead = Null => (log[i].nAfter = log[i].n + 1 /\ log[i].p = log[i].nAfter)
      /\ (i > 1 /\ IsRecycle(i - 1)) => log[i].p = log[i - 1].p

\* One update has recycled a particle and spawned it again.
C4_Witness ==
  /\ op.name = "update"
  /\ \E i \in DOMAIN log : i > 1 /\ IsSpawn(i) /\ IsRecycle(i - 1) /\ log[i].n = log[i].nAfter

\* C6 as stated: with emitterLifetime = 2 and frequency = 1, emit true at
\* init and update driven with positive deltas, emit is true while the
\* elapsed time is below 2 and false once 2 have elapsed.
C6_EmitUntilLifetime ==
  (emitter._origConfig = LimitedConfig /\ hist.elapsed >= 0) =>
    (emitter._emit <=> hist.elapsed < 2)

\* C7: with frequency 1, particlesPerWave 1, lifetime 2..2, maxParticles 5
\* and emit true, after three update(1) calls exactly three particles are
\* active, of ages 2, 1, 0, and the third call recycled the particle whose
\* age it pushed from 2 past 2.
C7_ThreeUpdates ==
  (emitter._origConfig = SteadyConfig /\ hist.unit /\ hist.elapsed = 3) =>
    /\ emitter.particleCount = 3
    /\ AgesOf(ActiveSeq) = <<2, 1, 0>>
    /\ \E i \in DOMAIN log :
         IsRecycleFor(i, "age") /\ log[i].age = 3 /\ log[i].maxLife = 2

\* The state after the three update(1) calls.
C7_Witness ==
  /\ emitter._origConfig = SteadyConfig /\ hist.unit /\ hist.elapsed = 3
  /\ op.name = "update" /\ op.arg = 1

\* C8: in one update call every particle active at entry is aged and run
\* through the update-behaviors before any particle is spawned, so delta is
\* not applied to a particle spawned in the call: at the end its age is the
\* time owed at its slot, -_spawnTimer.
C8_SpawnAfterAging ==
  op.name = "update" =>
    /\ \A i \in DOMAIN log :
         (IsSpawn(i) /\ \A j \in DOMAIN log : j > i => log[j].p # log[i].p) =>
           (log[i].p \in ActiveSet /\ particle[log[i].p].age = log[i].owed)
    /\ \A i, j \in DOMAIN log :
         (i < j /\ IsSpawn(i)) => ~(IsRecycleFor(j, "age") \/ IsRecycleFor(j, "behavior"))

\* An update(2) has aged a particle it found and spawned one that was owed time.
C8_Witness ==
  /\ op.name = "update" /\ op.arg = 2
  /\ \E i \in DOMAIN log : IsSpawn(i) /\ log[i].owed > 0 /\ log[i].p \in ActiveSet
  /\ \E x \in ActiveSet : (\A i \in DOMAIN log : log[i].p # x) /\ particle[x].age >= 2


\* Every particle constructed lies in exactly one of the two lists.
Partition == \A x \in Allocated : (x \in ActiveSet) # (x \in PoolSet)

\* C2 as stated: after any sequence of fillPool, update, emitNow, kill and
\* cleanup calls on an emitter that is not destroyed, every particle it has
\* constructed is in exactly one of the active list and the pool.
C2_Partition == emitter._parent => Partition

\* C2, amended: the same, kill being called on active particles only.
C2_PartitionActiveKills == (emitter._parent /\ ~misused) => Partition

\* kill on an active particle has left particles in both lists.
C2_Witness ==
  ~misused /\ op.name = "kill" /\ ActiveSet # {} /\ Cardinality(PoolSet) >= 2

ConfiguredZeroChance ==
  Has(emitter._origConfig, "spawnChance") /\ emitter._origConfig.spawnChance = 0

\* C5 as stated: an emitter initialized with spawnChance = 0 never spawns:
\* after any update calls its particleCount is 0.
C5_NoSpawnConfiguredZero ==
  (ConfiguredZeroChance /\ hist.elapsed >= 0) => emitter.particleCount = 0

\* C5, amended, init: a configured spawnChance of 0 is replaced by 1.
C5_InitCoerces ==
  (op.name = "init" /\ ConfiguredZeroChance) => emitter.spawnChance = One

\* C5, amended, update: while the spawnChance field is 0 an update call
\* spawns nothing, whatever the frequency and delta.
C5_Step ==
  (op'.name = "update" /\ emitter.spawnChance = 0) =>
    /\ \A i \in DOMAIN log' : log'[i].ev # "spawn"
    /\ emitter'.particleCount <= emitter.particleCount

\* C5, amended: init replaces a configured spawnChance of 0 by 1; an emitter
\* whose spawnChance field is 0 never spawns a particle in update.
C5_ZeroChanceField == [](C5_InitCoerces) /\ [][C5_Step]_vars

\* An emitting emitter with spawnChance 0 has been updated by a positive
\* delta and holds no particle.
C5_Witness ==
  /\ op.name = "update" /\ op.arg > 0
  /\ emitter.spawnChance = 0 /\ emitter._emit /\ emitter.particleCount = 0

Finished(e) == ~e._emit /\ e._activeParticlesFirst = Null

\* C9, in every state: the callback registered last has been invoked at
\* most once, and not at all while it is still pending.
C9_AtMostOnce == cbCalls <= 1 /\ (emitter._completeCallback => cbCalls = 0)

\* C9, in every step: an update that ends with emit false and no active
\* particle invokes the pending callback and clears it; nothing else
\* invokes it.
C9_Step ==
  /\ ( /\ op'.name = "update" /\ emitter._parent /\ emitter._completeCallback
       /\ Finished(emitter') )
       => (cbCalls' = cbCalls + 1 /\ ~emitter'._completeCallback)
  /\ cbCalls' > cbCalls =>
       /\ op'.name = "update" /\ emitter._completeCallback
       /\ Finished(emitter') /\ cbCalls' = cbCalls + 1

\* C9: a callback registered with playOnce or playOnceAndDestroy is invoked
\* once, at the end of the first update call that leaves emit false and the
\* active list empty, never again, and never while emit is true or a
\* particle is active.
C9_CallbackOnce == [](C9_AtMostOnce) /\ [][C9_Step]_vars

\* The callback has been invoked and a later update call has run.
C9_Witness ==
  cbCalls = 1 /\ op.name = "update" /\ emitter._parent /\ hist.elapsed >= 0

\* What an update call does when emit is false at its start; the ages at
\* which it may recycle are those OldEnough(event) allows.
EmitOffStep(OldEnough(_)) ==
  (op'.name = "update" /\ emitter._parent /\ ~emitter._emit) =>
    /\ \A i \in DOMAIN log' : log'[i].ev # "spawn"
    /\ emitter'.particleCount <= emitter.particleCount
    /\ \A x \in ActiveSet :
         \/ x \in ActiveSet' /\ particle'[x].age = particle[x].age + op'.arg
         \/ \E i \in DOMAIN log' : log'[i].p = x
    /\ \A i \in DOMAIN log' :
         log'[i].why = "behavior" \/ (log'[i].why = "age" /\ OldEnough(log'[i]))

PastMaxLife(event) == event.age > event.maxLife
OutOfRange(event) == event.age > event.maxLife \/ event.age < 0

\* C10 as stated, its safety half: with emit false an update adds no
\* particle, ages the active ones, and recycles one only when its age
\* exceeds maxLife or an update-behavior signals death.
C10_OnlyPastMaxLife == [][EmitOffStep(PastMaxLife)]_vars

\* C10, amended: with emit false an update adds no particle, particleCount
\* does not grow, the active particles are aged and recycled only when
\* their age exceeds maxLife or falls below 0 (a negative delta) or an
\* update-behavior signals death; under repeated update calls with a
\* positive delta the active list becomes empty.
C10_EmitOff ==
  /\ [][EmitOffStep(OutOfRange)]_vars
  /\ (Draining ~> ActiveSet = {})

\* With emit false, an update has recycled the last active particle for its age.
C10_Witness ==
  /\ ~emitter._emit /\ op.name = "update" /\ op.arg > 0 /\ ActiveSet = {}
  /\ \E i \in DOMAIN log : IsRecycleFor(i, "age")

\* C11, in every step: what an emitNow call changes.
C11_Step ==
  op'.name = "emitNow" =>
    /\ emitter'._spawnTimer = emitter._spawnTimer
    /\ emitter'._emitterLife = emitter._emitterLife
    /\ emitter'._emit = emitter._emit
    /\ Len(log') <= Min(emitter.particlesPerWave,
                        emitter.maxParticles - emitter.particleCount)
    /\ emitter.spawnChance >= One =>
         Len(log') = Min(emitter.particlesPerWave,
                         emitter.maxParticles - emitter.particleCount)
    /\ emitter'.particleCount = emitter.particleCount + Len(log')
    /\ \A i \in DOMAIN log' :
         /\ log'[i].ev = "spawn" /\ log'[i].by = "emitNow"
         /\ log'[i].p \in ActiveSet' \ ActiveSet
         /\ particle'[log'[i].p].age = 0
         /\ particle'[log'[i].p].agePercent = 0
         /\ \A j \in DOMAIN calls' :
              calls'[j].p = log'[i].p => calls'[j].ev \in {"spawn", "init"}
         /\ \A b \in 1..Len(emitter.initBehaviors) :
              Cardinality({j \in DOMAIN calls' :
                             /\ calls'[j].ev = "init" /\ calls'[j].b = b
                             /\ calls'[j].p = log'[i].p}) = 1
    /\ \A j \in DOMAIN calls' : calls'[j].ev \notin {"update", "recycle"}

\* C11: emitNow spawns one wave (of particlesPerWave particles, capped by
\* the room left, fewer if spawnChance skips some) whatever the emit flag,
\* leaves _spawnTimer, _emitterLife and emit unchanged, and every particle
\* it spawns has age 0 and agePercent 0 at return: nothing is back-dated.
\* Of the behaviors only initParticles is called on a particle of the
\* wave, once for each init-behavior; no updateParticle is called on it
\* (nor on any other particle) during the call and nothing is recycled.
C11_EmitNowFrame == [][C11_Step]_vars

\* emitNow has spawned with emit false and time left on the spawn timer,
\* on an emitter that has update-behaviors.
C11_Witness ==
  /\ op.name = "emitNow" /\ ~emitter._emit /\ emitter._spawnTimer > 0
  /\ emitter.updateBehaviors # <<>>
  /\ \E i \in DOMAIN log : IsSpawn(i)

\* C12, the state destroy returns in.
C12_AfterDestroy ==
  op.name = "destroy" =>
    /\ ~op.err
    /\ ~emitter._autoUpdate
    /\ emitter._activeParticlesFirst = Null /\ emitter._activeParticlesLast = Null
    /\ emitter.particleCount = 0
    /\ emitter._poolFirst = Null
    /\ \A x \in Allocated : particle[x].next = Null /\ particle[x].prev = Null
    /\ emitter.initBehaviors = <<>> /\ emitter.updateBehaviors = <<>>
    /\ emitter.recycleBehaviors = <<>>
    /\ destroyed(emitter)

\* C12, update on an emitter left without a parent (as destroy leaves it).
C12_Step ==
  (op'.name = "update" /\ ~emitter._parent) =>
    /\ UNCHANGED <<emitter, particle, allocated, cbCalls>>
    /\ log' = <<>> /\ ~op'.err

\* C12: destroy, called in any state, returns with autoUpdate false, both
\* lists empty, particleCount 0, every particle unlinked, the three
\* behavior lists empty and destroyed true; an update call on the emitter
\* it leaves (no parent) changes nothing and raises nothing.
C12_Destroyed == [](C12_AfterDestroy) /\ [][C12_Step]_vars

\* destroy has recycled an active particle and released a pooled one.
C12_Witness ==
  /\ op.name = "destroy" /\ allocated >= 2
  /\ Len(log) = 1 /\ IsRecycleFor(1, "cleanup")

\* C13 as stated: init on an emitter that has a parent (a destroyed one that
\* was given a parent again included) completes without error and leaves
\* an emitter that is not destroyed, its behaviors installed.
C13_ReusableAfterDestroy ==
  (op.name = "init" /\ emitter._parent) =>
    /\ ~op.err
    /\ ~destroyed(emitter)
    /\ emitter.ownerPos # NullRef

\* C14, in every step: what the frequency setter and init store.
C14_Step ==
  /\ op'.name = "frequency" =>
       /\ ~op'.err
       /\ op'.arg \in BadFrequencies => emitter'._frequency = 1
       /\ op'.arg \in GoodFrequencies => emitter'._frequency = op'.arg.num
  /\ (op'.name = "init" /\ ~op'.err) =>
       LET config == emitter'._origConfig
       IN  emitter'._frequency =
             IF Has(config, "frequency") /\ config.frequency > 0
             THEN config.frequency ELSE 1

\* C14: a frequency that is not a number above 0 (0, a negative number,
\* NaN, undefined, a string), assigned directly or through init, is stored
\* as 1 and raises nothing; a number above 0 is stored as it is; the
\* frequency is above 0 in every state.
C14_FrequencyPositive == [](emitter._frequency > 0) /\ [][C14_Step]_vars

\* undefined was assigned to a frequency of 2.
C14_Witness ==
  /\ op.name = "frequency" /\ op.arg = Undefined
  /\ emitter._origConfig = CappedConfig /\ emitter._frequency = 1

\* C15 as stated: every update call returns.
C15_UpdateTerminates == ~op.hung

\* C15, amended, in every step: the spawn timer an update call starts its
\* loop with is the old one less delta; unless that subtraction absorbed
\* the old timer (a huge delta), the loop ends within one iteration per
\* frequency owed, plus one.
C15_Step ==
  op'.name = "update" =>
    LET start == Plus(emitter._spawnTimer, 0 - (IF op'.arg < 0 THEN 0 ELSE op'.arg))
    IN  Abs(start) < Huge =>
          /\ ~op'.hung
          /\ op'.slots <= (IF ~emitter._emit \/ ~emitter._parent \/ start > 0 THEN 0
                           ELSE (0 - start) \div emitter._frequency + 1)

\* C15, amended: an update call whose delta is not so large that adding a
\* frequency to the spawn timer is lost in rounding returns, its spawn
\* loop making at most floor((delta - _spawnTimer) / frequency) + 1
\* iterations, also when every slot is dropped at the particle cap, when
\* spawnChance or the lifetime check skips every particle, and when the
\* emitter lifetime runs out.
C15_TerminatesUnlessAbsorbed == [][C15_Step]_vars

\* An update call has dropped its slots at the particle cap and spawned nothing.
C15_Witness ==
  /\ op.name = "update" /\ op.slots >= 1 /\ ~op.hung
  /\ emitter.particleCount = emitter.maxParticles
  /\ log = <<>>


\* What init makes of the entries of config.behaviors with the given type.
C16_Count(list, type) == Cardinality({i \in 1..Len(list) : list[i].type = type})

\* C16: an init call given entries of types that are not registered does
\* not raise for them (when it raises, the constructor of a registered
\* type did); initBehaviors then holds PositionParticle exactly once and,
\* for every registered type, as many instances as the configuration has
\* entries of it, and nothing else.
C16_UnknownSkipped ==
  op.name = "init" =>
    LET entries == emitter._origConfig.behaviors
        made == emitter.initBehaviors
    IN  /\ op.err => \E i \in 1..Len(entries) :
                       IsKnown(entries[i]) /\ ConstructorRaises(entries[i])
        /\ ~op.err =>
             /\ C16_Count(made, "PositionParticle") = 1
             /\ \A t \in knownBehaviors : C16_Count(made, t) = C16_Count(entries, t)
             /\ \A i \in 1..Len(made) :
                  made[i].type \in knownBehaviors \cup {"PositionParticle"}

\* init was given a registered and an unregistered type and returned.
C16_Witness ==
  /\ op.name = "init" /\ ~op.err
  /\ \E i \in 1..Len(emitter._origConfig.behaviors) :
       emitter._origConfig.behaviors[i].type \notin knownBehaviors
  /\ Len(emitter.initBehaviors) = 2

\* C17: an init call whose configuration has a spawnShape entry with a
\* shape type that is not registered raises.
C17_UnregisteredShapeRaises ==
  (/\ op.name = "init"
   /\ \E i \in 1..Len(emitter._origConfig.behaviors) :
        /\ emitter._origConfig.behaviors[i].type = "spawnShape"
        /\ emitter._origConfig.behaviors[i].config.type \notin shapes)
    => op.err

\* init was given a spawnShape entry of type "blob" and raised.
C17_Witness ==
  /\ op.name = "init" /\ op.err
  /\ emitter._origConfig = BadShapeConfig

\* The emitter has a movePath behavior made from a string parsePath rejects.
C18_HasRejectedPath ==
  \E i \in 1..Len(emitter.updateBehaviors) :
    /\ emitter.updateBehaviors[i].type = "movePath"
    /\ emitter._origConfig.behaviors[1].type = "movePath"
    /\ parsePath(emitter._origConfig.behaviors[1].config.path) = "raises"

\* C18 as stated: with a movePath behavior made from a path string that
\* does not parse, init returns and every later update call returns too.
C18_RejectedPathIsNoOp ==
  /\ (op.name = "init" /\ emitter._origConfig = BadPathConfig) => ~op.err
  /\ (op.name = "update" /\ C18_HasRejectedPath) => ~op.err

\* The last interpolate call was on a list made from two keyframes at
\* times 0 and 1 that is not stepped.
C19_TwoKeyframes ==
  /\ interpolated.called
  /\ Len(interpolated.of.list) = 2
  /\ interpolated.of.list[1].time = 0 /\ interpolated.of.list[2].time = One
  /\ ~interpolated.of.isStepped

\* C19 as stated: on a list made by createList from the keyframes (v0, 0)
\* and (v1, 1), v0 = v1 included, interpolate(0) returns v0, interpolate(1)
\* returns v1 and interpolate(0.5) returns (v0 + v1) / 2.
C19_EndpointsAndMidpoint ==
  C19_TwoKeyframes =>
    LET v0 == interpolated.of.list[1].value
        v1 == interpolated.of.list[2].value
    IN  /\ interpolated.lerp = 0 => interpolated.result = Returns(v0)
        /\ interpolated.lerp = One => interpolated.result = Returns(v1)
        /\ interpolated.lerp = 50 => interpolated.result = Returns((v0 + v1) \div 2)

\* The last interpolate call was on a list flagged isStepped, one of whose
\* keyframes has a time at or before the fraction.
C20_Stepped ==
  /\ interpolated.called
  /\ interpolated.of.isStepped
  /\ \E i \in 1..Len(interpolated.of.list) :
       interpolated.of.list[i].time <= interpolated.lerp

\* C20 as stated: on a stepped list interpolate(f) returns the value of the
\* last keyframe whose time is at most f.
C20_SteppedNeverBlends ==
  C20_Stepped =>
    LET array == interpolated.of.list
        last == CHOOSE i \in 1..Len(array) :
                  /\ array[i].time <= interpolated.lerp
                  /\ \A j \in 1..Len(array) : array[j].time <= interpolated.lerp => j <= i
    IN  interpolated.result = Returns(array[last].value)

\* C21: upgradeConfig of a configuration that has a behaviors key returns
\* that configuration, every field as it was; so upgrading what an upgrade
\* returned gives it back.
C21_UpgradeIdempotent ==
  upgraded.called =>
    /\ "behaviors" \in DOMAIN upgraded.config => upgraded.out = upgraded.config
    /\ "behaviors" \in DOMAIN upgraded.out
    /\ upgraded.again => upgraded.out = upgraded.config

\* The upgrade of a legacy configuration, with three behaviors or more,
\* has been upgraded again.
C21_Witness ==
  /\ upgraded.again
  /\ "ease" \in DOMAIN upgraded.config
  /\ Len(upgraded.config.behaviors) >= 3

\* The last call upgraded a legacy configuration; the entries it made of
\* the given types; a property that is one value (a ramp with start = end
\* or a list of one keyframe), that value, a ramp with start # end.
C22_Legacy == upgraded.called /\ "behaviors" \notin DOMAIN upgraded.config
C22_Made(types) == SelectSeq(upgraded.out.behaviors, LAMBDA b : b.type \in types)
C22_Flat(prop) ==
  IF "start" \in DOMAIN prop THEN prop.start = prop.end ELSE Len(prop.list) = 1
C22_Value(prop) == IF "start" \in DOMAIN prop THEN prop.start ELSE prop.list[1].value
C22_Ramped(prop) == "start" \in DOMAIN prop /\ prop.start # prop.end
C22_Keyframes(prop) ==
  [list |-> <<[time |-> 0, value |-> prop.start], [time |-> One, value |-> prop.end]>>]

\* C22 for alpha and color: one value gives the static behavior with that
\* value, or nothing when it is the default; a ramp gives the interpolated
\* behavior with the keyframes (start, 0), (end, 1).
C22_AlphaAndColor ==
  /\ "alpha" \in DOMAIN upgraded.config =>
       LET prop == upgraded.config.alpha
           made == C22_Made({"alpha", "alphaStatic"})
       IN  /\ (C22_Flat(prop) /\ C22_Value(prop) = 1) => made = <<>>
           /\ (C22_Flat(prop) /\ C22_Value(prop) # 1) =>
                made = <<[type |-> "alphaStatic", config |-> [alpha |-> C22_Value(prop)]]>>
           /\ C22_Ramped(prop) =>
                made = <<[type |-> "alpha", config |-> [alpha |-> C22_Keyframes(prop)]]>>
  /\ "color" \in DOMAIN upgraded.config =>
       LET prop == upgraded.config.color
           made == C22_Made({"color", "colorStatic"})
       IN  /\ (C22_Flat(prop) /\ C22_Value(prop) = "ffffff") => made = <<>>
           /\ (C22_Flat(prop) /\ C22_Value(prop) # "ffffff") =>
                made = <<[type |-> "colorStatic", config |-> [color |-> C22_Value(prop)]]>>
           /\ C22_Ramped(prop) =>
                made = <<[type |-> "color", config |-> [color |-> C22_Keyframes(prop)]]>>

\* The multiplier the scale block reads: of the ramp, or of the
\* configuration for a list.
C22_ScaleMult ==
  LET from == IF "start" \in DOMAIN upgraded.config.scale
              THEN upgraded.config.scale ELSE upgraded.config
  IN  IF "minimumScaleMultiplier" \in DOMAIN from THEN from.minimumScaleMultiplier ELSE 1

\* C22 as stated: for scale as for alpha and color, a value equal to the
\* default produces no behavior entry.
C22_DefaultOmitted ==
  C22_Legacy =>
    /\ C22_AlphaAndColor
    /\ "scale" \in DOMAIN upgraded.config =>
         LET prop == upgraded.config.scale
             made == C22_Made({"scale", "scaleStatic"})
         IN  /\ (C22_Flat(prop) /\ C22_Value(prop) = 1) => made = <<>>
             /\ (C22_Flat(prop) /\ C22_Value(prop) # 1) =>
                  /\ Len(made) = 1 /\ made[1].type = "scaleStatic"
             /\ C22_Ramped(prop) => Len(made) = 1 /\ made[1].type = "scale"

\* C22, amended: alpha and color as stated; a scale of one value always
\* produces scaleStatic with max that value and min the value times the
\* minimum scale multiplier, also when the value is the default 1; a
\* scale ramp produces the interpolated scale with the keyframes
\* (start, 0), (end, 1).
C22_ScaleAlwaysStatic ==
  C22_Legacy =>
    /\ C22_AlphaAndColor
    /\ "scale" \in DOMAIN upgraded.config =>
         LET prop == upgraded.config.scale
             made == C22_Made({"scale", "scaleStatic"})
         IN  /\ C22_Flat(prop) =>
                  made = <<[type |-> "scaleStatic",
                            config |-> [min |-> C22_Value(prop) * C22_ScaleMult,
                                        max |-> C22_Value(prop)]]>>
             /\ C22_Ramped(prop) =>
                  made = <<[type |-> "scale",
                            config |-> [scale |-> C22_Keyframes(prop),
                                        minMult |-> C22_ScaleMult]]>>

\* A legacy configuration whose alpha and scale are both the ramp from 1
\* to 1 has been upgraded: no alpha entry, a scaleStatic entry.
C22_Witness ==
  /\ C22_Legacy
  /\ "alpha" \in DOMAIN upgraded.config /\ "scale" \in DOMAIN upgraded.config
  /\ upgraded.config.alpha = [start |-> 1, end |-> 1]
  /\ upgraded.config.scale = [start |-> 1, end |-> 1]
  /\ C22_Made({"alpha", "alphaStatic"}) = <<>>
  /\ Len(C22_Made({"scale", "scaleStatic"})) = 1

\* ---------------------------------------------------------------- C23
C23_Fits ==
  /\ stage.styleWidth <= stage.viewport.width
  /\ stage.styleHeight <= stage.viewport.height

C23_WholeScale ==
  /\ stage.stageDims = stageDims
  /\ stage.stageScale \in Nat /\ stage.stageScale >= 1
  /\ stage.stageScale % PIXEL_SCALE = 0
  /\ stage.styleWidth = stage.stageDims.width * stage.stageScale
  /\ stage.styleHeight = stage.stageDims.height * stage.stageScale

C23_StageFitsViewport ==
  /\ stage.stageDims.width <= stage.viewport.width
  /\ stage.stageDims.height <= stage.viewport.height

\* C23 as stated: after every resize event the canvas CSS size is the stage
\* size times a whole scale of at least 1 that is a multiple of PIXEL_SCALE,
\* the scaled canvas lies within the observed viewport, and the stage's
\* pixel dimensions are unchanged.
C23_ContainedAfterEveryResize ==
  stage.resized => C23_WholeScale /\ C23_Fits

\* C23: after every resize event the canvas CSS size is the stage size
\* times a whole scale of at least 1 that is a multiple of PIXEL_SCALE and
\* the stage's pixel dimensions are unchanged; the scaled canvas lies within
\* the observed viewport when the viewport is at least as large as the
\* unscaled stage, and with a smaller viewport the scale is 1 and the canvas
\* is larger than the viewport.
C23_ContainedWhenStageFits ==
  stage.resized =>
    /\ C23_WholeScale
    /\ C23_StageFitsViewport => C23_Fits
    /\ ~C23_StageFitsViewport => stage.stageScale = 1 /\ ~C23_Fits

\* A viewport of three and a half stage widths by twice the stage height
\* less a pixel: the scale is 1, short of the 2 the width alone allows.
C23_Witness ==
  /\ stage.resized /\ stage.startCalled
  /\ stage.viewport = [width |-> (7 * stageDims.width) \div 2, height |-> 2 * stageDims.height - 1]
  /\ stage.stageScale = 1
  /\ stage.styleWidth = stageDims.width

\* ---------------------------------------------------------------- C24
C24_Slots == {calls[i].slot : i \in DOMAIN calls} \ {0}
C24_Wave(s) ==
  {calls[i].p : i \in {j \in DOMAIN calls : calls[j].ev = "spawn" /\ calls[j].slot = s}}
C24_Owed(s) ==
  LET i == CHOOSE j \in DOMAIN calls : calls[j].ev = "spawn" /\ calls[j].slot = s
  IN  calls[i].dt
C24_InitOf(s, x) ==
  SelectSeq(calls, LAMBDA c : c.ev = "init" /\ c.slot = s /\ c.p = x)
C24_UpdatesOf(s, x) ==
  SelectSeq(calls, LAMBDA c : c.ev = "update" /\ c.slot = s /\ c.p = x)

\* Every step of initBehaviors, the position step among them, ran once on
\* every particle of the wave, in the order of the list, and before any
\* updateParticle of the slot.
C24_InitBeforeUpdate ==
  /\ \A s \in C24_Slots : \A x \in C24_Wave(s) :
       /\ Len(C24_InitOf(s, x)) = Len(emitter.initBehaviors)
       /\ \A b \in DOMAIN C24_InitOf(s, x) : C24_InitOf(s, x)[b].b = b
  /\ \A i, j \in DOMAIN calls :
       (calls[i].slot = calls[j].slot /\ calls[i].slot # 0
        /\ calls[i].ev = "init" /\ calls[j].ev = "update") => i < j

\* A particle reported dead in a slot is recycled at once.
C24_DeadRecycledAtOnce ==
  \A i \in DOMAIN calls :
    (calls[i].ev = "update" /\ calls[i].died /\ calls[i].slot # 0) =>
      /\ i + 1 \in DOMAIN calls
      /\ calls[i + 1].ev = "recycle" /\ calls[i + 1].p = calls[i].p

C24_Updated == op.name = "update" /\ ~op.err /\ ~destroyed(emitter)

\* C24 as stated: for every wave spawned in update, every init behavior and
\* the position step run on every particle of the wave before any update
\* behavior runs on any of them; then each update behavior is run exactly
\* once on each particle of the wave with the time owed, -_spawnTimer; a
\* particle reported dead is recycled immediately.
C24_EachBehaviorOnce ==
  C24_Updated =>
    /\ C24_InitBeforeUpdate
    /\ C24_DeadRecycledAtOnce
    /\ \A s \in C24_Slots : \A x \in C24_Wave(s) :
         /\ Len(C24_UpdatesOf(s, x)) = Len(emitter.updateBehaviors)
         /\ \A b \in DOMAIN C24_UpdatesOf(s, x) :
              /\ C24_UpdatesOf(s, x)[b].b = b
              /\ C24_UpdatesOf(s, x)[b].dt = C24_Owed(s)

\* C24: for every wave spawned in update, every init behavior and the
\* position step run on every particle of the wave before any update
\* behavior runs on any of them; then the update behaviors are run on each
\* particle of the wave in their order with the time owed, -_spawnTimer,
\* each once, up to and including the first that reports the particle dead:
\* that particle is recycled immediately and the behaviors after it are not
\* run on it. On a particle no behavior reports dead every update behavior
\* is run exactly once.
C24_EachBehaviorOnceUntilDeath ==
  C24_Updated =>
    /\ C24_InitBeforeUpdate
    /\ C24_DeadRecycledAtOnce
    /\ \A s \in C24_Slots : \A x \in C24_Wave(s) :
         LET ran == C24_UpdatesOf(s, x)
         IN  /\ Len(ran) <= Len(emitter.updateBehaviors)
             /\ \A b \in DOMAIN ran :
                  /\ ran[b].b = b
                  /\ ran[b].dt = C24_Owed(s)
                  /\ ran[b].died => b = Len(ran)
             /\ Len(ran) < Len(emitter.updateBehaviors) =>
                  (Len(ran) > 0 /\ ran[Len(ran)].died)

\* A wave of two particles two ticks late: the first update behavior
\* reports both dead and the second runs on neither; a later wave of the
\* call is on time and both behaviors run on its particles.
C24_Witness ==
  /\ C24_Updated
  /\ Len(emitter.initBehaviors) = 4 /\ Len(emitter.updateBehaviors) = 2
  /\ \E s \in C24_Slots :
       /\ Cardinality(C24_Wave(s)) = 2 /\ C24_Owed(s) = 2
       /\ \A x \in C24_Wave(s) : Len(C24_UpdatesOf(s, x)) = 1
  /\ \E s \in C24_Slots :
       /\ Cardinality(C24_Wave(s)) = 2 /\ C24_Owed(s) = 0
       /\ \A x \in C24_Wave(s) : Len(C24_UpdatesOf(s, x)) = 2

\* ---------------------------------------------------------------- C25
C25_Deaths == {i \in DOMAIN calls : calls[i].ev = "update" /\ calls[i].died}
C25_RecyclesOf(x) == {i \in DOMAIN calls : calls[i].ev = "recycle" /\ calls[i].p = x}

\* C25 as stated: a particle for which updateParticle returned true during
\* update is recycled exactly once and no update behavior is run on it
\* later in that call.
C25_NeverRunAgain ==
  op.name = "update" /\ ~op.err =>
    \A i \in C25_Deaths :
      /\ Cardinality(C25_RecyclesOf(calls[i].p)) = 1
      /\ \A j \in DOMAIN calls :
           (j > i /\ calls[j].p = calls[i].p) => calls[j].ev # "update"

\* The next call after the report is the recycle of that particle, and
\* nothing more is called on it before a wave takes it from the pool.
C25_NotUntilRespawned ==
  \A i \in C25_Deaths :
    /\ i + 1 \in DOMAIN calls
    /\ calls[i + 1].ev = "recycle" /\ calls[i + 1].p = calls[i].p
    /\ \A j \in DOMAIN calls :
         (j > i + 1 /\ calls[j].p = calls[i].p /\ calls[j].ev # "spawn") =>
           \E k \in (i + 2)..(j - 1) :
             calls[k].ev = "spawn" /\ calls[k].p = calls[i].p

\* Every wave's particle met the first update behavior in its slot.
C25_WavesProcessed ==
  \A s \in C24_Slots : \A x \in C24_Wave(s) :
    emitter.updateBehaviors # <<>> => C24_UpdatesOf(s, x) # <<>>

C25_Step ==
  (op'.name = "update" /\ ~op'.err) =>
    /\ C25_NotUntilRespawned'
    /\ C25_WavesProcessed'
    /\ emitter.updateBehaviors # <<>> =>
         \A x \in ActiveSet :
           \E i \in DOMAIN calls' :
             /\ calls'[i].slot = 0 /\ calls'[i].p = x
             /\ \/ calls'[i].ev = "recycle"
                \/ calls'[i].ev = "update" /\ calls'[i].b = 1

\* C25: whenever a behavior's updateParticle returns true for a particle
\* during update, in the pass over the active particles and in the catch-up
\* pass over a wave alike, the particle is recycled at once, exactly once,
\* and no later update behavior is run on it, until a wave spawned later in
\* the same call takes that particle from the pool: from then on it is
\* initialized, updated and possibly recycled again as a new particle. The
\* remaining particles of the list are still processed.
C25_DeathEndsTheLoop == [][C25_Step]_vars

\* Two particles die in the pass over the active list, the second after the
\* first was recycled; both are taken from the pool by a late wave of the
\* same call and die again in its catch-up pass.
C25_Witness ==
  /\ op.name = "update" /\ ~op.err
  /\ \E i, j \in C25_Deaths :
       /\ i < j /\ calls[i].slot = 0 /\ calls[j].slot = 0 /\ calls[i].p # calls[j].p
       /\ \E k \in C25_Deaths : k > j /\ calls[k].slot > 0 /\ calls[k].p = calls[i].p
       /\ Cardinality(C25_RecyclesOf(calls[j].p)) = 2

\* ---------------------------------------------------------------- C26
\* The particles reached from x by following prev, the last one first.
RECURSIVE C26_WalkBack(_, _, _)
C26_WalkBack(p, x, fuel) ==
  IF x = Null \/ fuel = 0 THEN <<>> ELSE C26_WalkBack(p, p[x].prev, fuel - 1) \o <<x>>

C26_Without(seq, x) == SelectSeq(seq, LAMBDA y : y # x)
C26_Head(seq) == IF seq = <<>> THEN Null ELSE seq[1]
C26_Tail(seq) == IF seq = <<>> THEN Null ELSE seq[Len(seq)]

C26_Step ==
  (op'.name = "kill" /\ op'.arg \in ActiveSet) =>
    LET x == op'.arg
        rest == C26_Without(ActiveSeq, x)
    IN  /\ ActiveSeq' = rest
        /\ C26_WalkBack(particle', emitter'._activeParticlesLast, MaxAlloc + 1) = rest
        /\ emitter'._activeParticlesFirst = C26_Head(rest)
        /\ emitter'._activeParticlesLast = C26_Tail(rest)
        /\ emitter'._poolFirst = x
        /\ PoolSeq' = <<x>> \o PoolSeq
        /\ particle'[x].prev = Null
        /\ emitter'.particleCount = emitter.particleCount - 1

\* C26: recycle(p) of an active particle p, at the head, at the tail, in
\* the middle of the active list or its only element, removes exactly p
\* and keeps the order of the others (read forwards and backwards),
\* leaves _activeParticlesFirst and _activeParticlesLast at the first and
\* last of the others (null when none is left), makes p the head of the
\* pool in front of the former pool, and takes 1 from particleCount.
C26_RecycleUnlinks == [][C26_Step]_vars

\* The particle in the middle of three was killed.
C26_Witness ==
  /\ op.name = "kill" /\ Len(calls) = 1
  /\ calls[1].ev = "recycle" /\ calls[1].prev # Null /\ calls[1].next # Null
  /\ ActiveSeq = <<calls[1].prev, calls[1].next>>
  /\ emitter._poolFirst = op.arg

\* ---------------------------------------------------------------- C27
C27_Positions(list) == {i \in DOMAIN list : list[i] = PositionParticle}
C27_IndexIn(list, b) == CHOOSE i \in DOMAIN list : list[i] = b

\* list holds exactly the behaviors of initBehaviors that satisfy Keeps, in
\* the order they have there, and not the position step.
C27_KeepsOrder(list, Keeps(_)) ==
  /\ C27_Positions(list) = {}
  /\ Range(list) = {b \in Range(emitter.initBehaviors) \ {PositionParticle} : Keeps(b)}
  /\ \A k, l \in DOMAIN list :
       k < l => C27_IndexIn(emitter.initBehaviors, list[k])
                  < C27_IndexIn(emitter.initBehaviors, list[l])

\* C27: after init with behaviors of the orders Spawn, Normal, Late and
\* Late + 1 in any order in the config, initBehaviors holds the position
\* step exactly once, every behavior of order Spawn before it and every
\* other behavior after it in non-decreasing order; updateBehaviors and
\* recycleBehaviors hold the behaviors with an updateParticle and with a
\* recycleParticle, never the position step, in the same relative order.
C27_PositionAfterSpawn ==
  (op.name = "init" /\ ~op.err) =>
    LET list == emitter.initBehaviors
    IN  /\ Cardinality(C27_Positions(list)) = 1
        /\ Len(list) = 1 + Cardinality({i \in DOMAIN emitter._origConfig.behaviors :
                                         IsKnown(emitter._origConfig.behaviors[i])})
        /\ \A i \in DOMAIN list : \A at \in C27_Positions(list) :
             /\ i < at => order(list[i]) = OrderSpawn
             /\ i > at => order(list[i]) # OrderSpawn
        /\ \A i, j \in DOMAIN list : \A at \in C27_Positions(list) :
             (at < i /\ i < j) => order(list[i]) <= order(list[j])
        /\ C27_KeepsOrder(emitter.updateBehaviors, hasUpdateParticle)
        /\ C27_KeepsOrder(emitter.recycleBehaviors, hasRecycleParticle)

\* The config lists noRotation, moveSpeedStatic, trail and spawnShape, the
\* highest order first, and all four types are registered.
C27_Witness ==
  /\ op.name = "init" /\ ~op.err
  /\ emitter._origConfig.behaviors =
       <<Entry("noRotation"), Entry("moveSpeedStatic"), Entry("trail"), ShapeEntry("rect")>>
  /\ Len(emitter.initBehaviors) = 5
  /\ emitter.initBehaviors[2] = PositionParticle
  /\ Len(emitter.updateBehaviors) = 2 /\ Len(emitter.recycleBehaviors) = 1

\* ---------------------------------------------------------------- C28
\* The last interpolate call was on a list that is not stepped, of three or
\* more keyframes at strictly increasing times from 0 to 1, with a
\* fraction in [0, 1].
C28_Curve ==
  /\ interpolated.called
  /\ ~interpolated.of.isStepped
  /\ Len(interpolated.of.list) >= 3
  /\ interpolated.of.list[1].time = 0
  /\ interpolated.of.list[Len(interpolated.of.list)].time = One
  /\ \A i \in 1..(Len(interpolated.of.list) - 1) :
       interpolated.of.list[i].time < interpolated.of.list[i + 1].time
  /\ 0 <= interpolated.lerp /\ interpolated.lerp <= One

\* C28: on such a list interpolate(f) returns the linear interpolation
\* between the two keyframes that bracket f, the fraction taken within
\* their segment, and at the time of a keyframe it returns that keyframe's
\* value.
C28_LinearBetweenKeyframes ==
  C28_Curve =>
    LET keys == interpolated.of.list
        f == interpolated.lerp
        got == interpolated.result
    IN  /\ ~got.raises
        /\ \A i \in 1..(Len(keys) - 1) :
             (keys[i].time <= f /\ f <= keys[i + 1].time) =>
               (got.value - keys[i].value) * (keys[i + 1].time - keys[i].time)
                 = (keys[i + 1].value - keys[i].value) * (f - keys[i].time)
        /\ \A k \in DOMAIN keys : f = keys[k].time => got.value = keys[k].value

\* Four keyframes 0, 24, 0, 12 at 0, 0.5, 0.75, 1 read at 0.25: half way
\* up the first segment.
C28_Witness ==
  /\ C28_Curve
  /\ Len(interpolated.of.list) = 4
  /\ interpolated.of.list[1].value = 0 /\ interpolated.of.list[2].value = 24
  /\ interpolated.of.list[3].value = 0 /\ interpolated.of.list[4].value = 12
  /\ interpolated.lerp = 25 /\ interpolated.result = Returns(12)

\* ---------------------------------------------------------------- C29
C29_EmitPositions(trace) == {i \in DOMAIN trace : trace[i].ev = "emitPos"}

\* C29: a slot's emit position is interpolated between the previous and
\* the current position of the emitter only when the previous position is
\* valid and the position changed since the last update; in the first
\* update after init or resetPositionTracking every slot uses the current
\* position; when it is interpolated the factor 1 + _spawnTimer / delta
\* lies in [0, 1]; and after every update of an emitter that has a parent
\* _posChanged is false.
C29_Step ==
  /\ (op'.name \in {"init", "resetPositionTracking"} /\ ~op'.err) =>
       ~emitter'._prevPosIsValid
  /\ (op'.name = "update" /\ ~op'.err /\ ~op'.hung /\ emitter._parent) =>
       /\ ~emitter'._posChanged
       /\ \A i \in C29_EmitPositions(calls') :
            /\ calls'[i].interpolated =>
                 (emitter._prevPosIsValid /\ emitter._posChanged)
            /\ ~emitter._prevPosIsValid =>
                 calls'[i].pos = Num(emitter.ownerPos.x + emitter.spawnPos.x)
            /\ calls'[i].interpolated =>
                 /\ ~calls'[i].lerp.nan
                 /\ 0 <= calls'[i].lerp.num /\ calls'[i].lerp.num <= One

C29_InterpolatedWithinFrame == [][C29_Step]_vars

\* ---------------------------------------------------------------- C30
C30_Before(i) == IF i = 1 THEN 0 ELSE chain.shape.countingLengths[i - 1]
C30_NoPoints ==
  \/ chain.data.kind = "undefined"
  \/ chain.data.kind = "points" /\ chain.data.points = <<>>
  \/ chain.data.kind = "chains" /\ chain.data.chains = <<>>

\* The particle lies on segment i at the offset r * totalLength less the
\* lengths before the segment.
C30_OnSegment(i) ==
  LET seg == chain.shape.segments[i]
      offset == chain.r * chain.shape.totalLength - C30_Before(i) * One
      out == chain.out
  IN  /\ C30_Before(i) * One <= chain.r * chain.shape.totalLength
      /\ (chain.shape.totalLength > 0 =>
            chain.r * chain.shape.totalLength < chain.shape.countingLengths[i] * One)
      /\ (out.x.num - seg.p1.x * out.x.den) * One * seg.l
            = offset * (seg.p2.x - seg.p1.x) * out.x.den
      /\ (out.y.num - seg.p1.y * out.y.den) * One * seg.l
            = offset * (seg.p2.y - seg.p1.y) * out.y.den
      /\ seg.l = 0 => (out.x.num = seg.p1.x * out.x.den /\ out.y.num = seg.p1.y * out.y.den)

\* C30: for every data of a PolygonalChain (none or empty, a list of
\* points, a list of chains, coinciding points among them) and every draw
\* r in [0, 1), getRandPos completes and places the particle on the segment
\* i with cumulative[i - 1] <= r * totalLength < cumulative[i], at that
\* offset along it; with no data the position is the origin.
C30_PlacedOnChain ==
  chain.called =>
    /\ ~chain.out.raises
    /\ chain.out.seg \in DOMAIN chain.shape.segments
    /\ C30_OnSegment(chain.out.seg)
    /\ C30_NoPoints => (chain.out.x.num = 0 /\ chain.out.y.num = 0)

\* ---------------------------------------------------------------- C31
C31_Step ==
  \A i \in InstanceIds :
    comp'.inst[i].destroyCalls # comp.inst[i].destroyCalls =>
      /\ comp.inst[i].init = "fulfilled"
      /\ comp.inst[i].destroyCalls = 0
      /\ comp'.inst[i].destroyCalls = 1

\* C31: the cleanup of the effect does not invoke an anim instance's
\* destroy() before the promise of its init() has completed, so destroy
\* never runs while init is still running, and destroy is invoked at most
\* once per instance.
C31_DestroyAfterInit ==
  /\ [][C31_Step]_vars
  /\ [](\A i \in InstanceIds :
         /\ comp.inst[i].destroyCalls <= 1
         /\ ~comp.inst[i].early
         /\ comp.inst[i].destroyCalls = 1 => comp.inst[i].init = "fulfilled")

\* The cleanup ran while init was at an await, init went on to its end and
\* only then was destroy invoked; the next instance is still in its init.
C31_Witness ==
  /\ comp.inst[1].destroyCalls = 1 /\ comp.inst[1].cleanup = "done"
  /\ comp.inst[2].cleanup = "awaiting" /\ comp.inst[2].init = "pending"
  /\ comp.inst[2].at > 1 /\ comp.inst[2].destroyCalls = 0

\* ---------------------------------------------------------------- C32
\* C32: for every active particle and every update-behavior, the deltaSec
\* values given to the behavior's updateParticle for the particle since it
\* was spawned sum to the particle's age: the catch-up of its spawn and the
\* delta of every later update for a particle update spawned, from 0 for
\* one emitNow spawned.
C32_TimeAppliedOnce ==
  ~op.err =>
    \A x \in ActiveSet :
      /\ Len(fed[x]) = Len(emitter.updateBehaviors)
      /\ \A i \in DOMAIN fed[x] : fed[x][i] = particle[x].age

\* An update has given its delta to a particle that an earlier call spawned
\* and fed, and has spawned another one.
C32_Witness ==
  /\ op.name = "update" /\ ~op.err /\ emitter.updateBehaviors # <<>>
  /\ \E k \in DOMAIN calls :
       /\ calls[k].ev = "update" /\ calls[k].slot = 0 /\ calls[k].dt > 0
       /\ calls[k].p \in ActiveSet
       /\ fed[calls[k].p][calls[k].b] > calls[k].dt
  /\ \E k \in DOMAIN calls :
       /\ calls[k].ev = "spawn" /\ calls[k].p \in ActiveSet
       /\ fed[calls[k].p] # <<>>

\* ---------------------------------------------------------------- C33
\* C33: after any sequence of init, fillPool, update, emitNow, kill on
\* active particles and cleanup, particleCount is the number of particles
\* reached from _activeParticlesFirst by following next, and it is never
\* negative.
C33_CountIsActiveLength ==
  ~op.hung =>
    /\ emitter.particleCount = Len(ActiveSeq)
    /\ emitter.particleCount >= 0

\* kill has taken one of three active particles.
C33_Witness ==
  /\ op.name = "kill" /\ emitter.particleCount = 2 /\ Len(ActiveSeq) = 2
  /\ PoolSet # {}

\* ---------------------------------------------------------------- C34
\* An update call has returned.
C34_Updated == op.name = "update" /\ ~op.err /\ ~op.hung

C34_TimerInRange ==
  /\ 0 <= emitter._spawnTimer /\ emitter._spawnTimer <= emitter._frequency
  /\ emitter._emit => emitter._spawnTimer > 0

\* An update with a negative dt does not decrease _spawnTimer.
C34_Step ==
  (op'.name = "update" /\ ~op'.err /\ ~op'.hung /\ op'.arg < 0) =>
    emitter'._spawnTimer >= emitter._spawnTimer

\* C34 as stated: with the frequency unchanged after init, at the end of
\* every update call 0 <= _spawnTimer <= frequency, and _spawnTimer > 0
\* whenever emit is still true; an update with negative dt does not
\* decrease _spawnTimer.
C34_TimerAfterEveryUpdate ==
  /\ [](C34_Updated => C34_TimerInRange)
  /\ [][C34_Step]_vars

\* C34, amended: the same at the end of every update call on an emitter
\* that has a parent; without one update returns at once and leaves
\* _spawnTimer as it is, 0 after init, whatever emit is.
C34_TimerAfterUpdateWithParent ==
  /\ []((C34_Updated /\ emitter._parent) => C34_TimerInRange)
  /\ [][C34_Step]_vars

\* An update with a negative dt on an emitting emitter has spawned a wave
\* and left the timer at the frequency, 2.
C34_Witness ==
  /\ C34_Updated /\ op.arg < 0 /\ emitter._parent /\ emitter._emit
  /\ emitter._frequency = 2 /\ emitter._spawnTimer = 2 /\ ActiveSet # {}


\* C35: read from _activeParticlesFirst to _activeParticlesLast, the ages of
\* the active particles never increase: the oldest particle comes first,
\* after every init, update, emitNow and kill.
C35_OldestFirst ==
  ~op.hung =>
    \A i \in 1..(Len(ActiveSeq) - 1) :
      particle[ActiveSeq[i]].age >= particle[ActiveSeq[i + 1]].age

\* An update has recycled a particle and spawned one, and the list it
\* leaves holds particles of different ages.
C35_Witness ==
  /\ op.name = "update" /\ ~op.err /\ ~op.hung
  /\ \E k \in DOMAIN calls : calls[k].ev = "recycle"
  /\ \E k \in DOMAIN calls : calls[k].ev = "spawn"
  /\ Len(ActiveSeq) >= 2
  /\ particle[ActiveSeq[1]].age > particle[ActiveSeq[Len(ActiveSeq)]].age


\* C36: two emitters of one configuration (spawnChance 1, one lifetime, cap
\* not reached, emitter at rest), driven from init by updates with positive
\* deltas that add up to the same time, have the same number of active
\* particles and the same multiset of ages.
C36_SameAgesForSameTime ==
  (twins.started /\ twins.a.total = twins.b.total) =>
    /\ twins.a.e.particleCount = twins.b.e.particleCount
    /\ Ages(twins.a) = Ages(twins.b)


\* C37: every assignment to emit, playOnce included, sets _emitterLife to
\* emitterLifetime; an update of an emitting emitter with a finite budget
\* takes one frequency from _emitterLife per spawn slot and stops the
\* emission in the slot that brings it to 0 or below, not earlier, and the
\* stop leaves _emitterLife at emitterLifetime again; with no finite budget
\* update never stops the emission; nothing else changes _emitterLife.
C37_Stopped == op.name = "update" /\ ~op.err /\ ~op.hung /\ op.slots >= 1 /\ ~emitter._emit

C37_Step ==
  LET life == emitter._emitterLife
      used == emitter._frequency * op'.slots
  IN  /\ op'.name \in {"emit", "playOnce", "playOnceAndDestroy"} =>
            emitter'._emitterLife = emitter'.emitterLifetime
      /\ (op'.name = "update" /\ ~op'.err /\ ~op'.hung) =>
            IF ~(emitter._parent /\ emitter._emit)
            THEN emitter'._emitterLife = life /\ emitter'._emit = emitter._emit
            ELSE IF life < 0 THEN emitter'._emit /\ emitter'._emitterLife = life
            ELSE IF emitter'._emit
            THEN emitter'._emitterLife = life - used /\ emitter'._emitterLife > 0
            ELSE /\ life - used <= 0
                 /\ life - (used - emitter._frequency) > 0
                 /\ emitter'._emitterLife = emitter'.emitterLifetime

C37_BudgetFromLastAssignment == [][C37_Step]_vars

\* An update has used up a budget of several slots and stopped the
\* emission; _emitterLife is the whole budget again.
C37_Witness ==
  /\ C37_Stopped /\ op.slots >= 2
  /\ emitter.emitterLifetime > 0 /\ emitter._emitterLife = emitter.emitterLifetime


\* C38: every value list upgradeConfig gives to an interpolated behavior
\* (alpha, color, scale, moveSpeed, movePath), made into nodes by createList
\* and given to PropertyList.reset, can be interpolated at every fraction
\* from 0 to 1 without an error.
InterpolatedTypes == {"alpha", "color", "scale", "moveSpeed", "movePath"}

\* hexToRGB, a color being held as one number.
ColorNumber(hex) ==
  IF hex = "ffffff" THEN 16777215 ELSE IF hex = "ff0000" THEN 16711680 ELSE 0

\* The list a behavior's constructor gives to createList.
ValueListOf(entry) ==
  IF entry.type = "alpha" THEN entry.config.alpha
  ELSE IF entry.type = "scale" THEN entry.config.scale
  ELSE IF entry.type = "color"
  THEN [list |-> [i \in DOMAIN entry.config.color.list |->
                    [time |-> entry.config.color.list[i].time,
                     value |-> ColorNumber(entry.config.color.list[i].value)]]]
  ELSE entry.config.speed

Evaluates(data) ==
  \A f \in Lerps : ~interpolate(reset(createList(data)), f).raises

C38_UpgradedListsEvaluate ==
  C22_Legacy =>
    \A i \in DOMAIN upgraded.out.behaviors :
      upgraded.out.behaviors[i].type \in InterpolatedTypes =>
        Evaluates(ValueListOf(upgraded.out.behaviors[i]))



\* A call that ends a burst: the last call so far, or one followed by the
\* next call no sooner than the delay.
C39_EndsBurst(k) ==
  \/ k = Len(debouncer.calls)
  \/ debouncer.calls[k + 1].at - debouncer.calls[k].at >= debouncer.delay

\* The delay has passed since call k and no timer is waiting to run.
C39_Settled(k) ==
  \/ debouncer.calls[k].at + debouncer.delay < debouncer.now
  \/ /\ debouncer.calls[k].at + debouncer.delay = debouncer.now
     /\ DueTimers(debouncer) = {}

\* One invocation for every burst whose delay is over, at the time of its
\* last call plus the delay and with that call's arguments.
RECURSIVE C39_Expected(_)
C39_Expected(k) ==
  IF k = 0 THEN <<>>
  ELSE IF C39_EndsBurst(k) /\ C39_Settled(k)
  THEN Append(C39_Expected(k - 1),
              [at |-> debouncer.calls[k].at + debouncer.delay,
               args |-> debouncer.calls[k].args])
  ELSE C39_Expected(k - 1)

\* With a delay of 0 or less debounce has returned callback itself: the
\* invocations are the calls, each at the time of its call.
C39_Synchronous ==
  /\ debouncer.isCallback
  /\ debouncer.invoked = debouncer.calls
  /\ debouncer.pending = {} /\ debouncer.ran = <<>>

\* C39 as stated: with a delay above 0 at most one timer is pending, and
\* every burst that a later call has followed at least the delay after its
\* last call has had callback invoked exactly once, at the time of that
\* last call plus the delay, with that call's arguments; the burst still
\* under way has had it invoked at most once, and then at that time. With a
\* delay of 0 or less every call invokes callback at once.
C39_OncePerBurst ==
  debouncer.made =>
    IF debouncer.delay <= 0 THEN C39_Synchronous
    ELSE /\ ~debouncer.isCallback
         /\ Cardinality(debouncer.pending) <= 1
         /\ \A k \in DOMAIN debouncer.calls :
              LET runs == {i \in DOMAIN debouncer.ran : debouncer.ran[i] = k}
              IN  /\ Cardinality(runs) <= 1
                  /\ C39_EndsBurst(k) /\ k < Len(debouncer.calls)
                       => Cardinality(runs) = 1
                  /\ \A i \in runs :
                       debouncer.invoked[i] =
                         [at |-> debouncer.calls[k].at + debouncer.delay,
                          args |-> debouncer.calls[k].args]

\* C39, amended: with a delay above 0 at most one timer is pending, and it
\* is the timer of the latest call. callback is invoked only by a timer,
\* no earlier than the delay after the call that set it and with that
\* call's arguments, and only while that call is the latest one: so at most
\* once for a burst, for its last call, and not at all for a burst whose
\* timer is still waiting to run when the next call clears it. The timer of
\* the latest call is pending until it runs. As long as every timer has run
\* at its due time before anything else happened, the invocations are
\* exactly one for each burst, at the time of its last call plus the delay.
\* With a delay of 0 or less every call invokes callback at once.
C39_AtMostOncePerBurst ==
  debouncer.made =>
    IF debouncer.delay <= 0 THEN C39_Synchronous
    ELSE /\ ~debouncer.isCallback
         /\ Cardinality(debouncer.pending) <= 1
         /\ Len(debouncer.ran) = Len(debouncer.invoked)
         /\ \A t \in debouncer.pending :
              /\ t.id = Len(debouncer.calls)
              /\ t.due = debouncer.calls[t.id].at + debouncer.delay
              /\ t.args = debouncer.calls[t.id].args
         /\ \A i \in DOMAIN debouncer.ran :
              LET k == debouncer.ran[i]
              IN  /\ k \in DOMAIN debouncer.calls
                  /\ C39_EndsBurst(k)
                  /\ debouncer.invoked[i].args = debouncer.calls[k].args
                  /\ debouncer.invoked[i].at >= debouncer.calls[k].at + debouncer.delay
                  /\ k < Len(debouncer.calls)
                       => debouncer.invoked[i].at <= debouncer.calls[k + 1].at
                  /\ \A j \in DOMAIN debouncer.ran : j < i => debouncer.ran[j] < k
         /\ debouncer.calls # <<>> =>
              (debouncer.pending = {}
                 <=> \E i \in DOMAIN debouncer.ran :
                       debouncer.ran[i] = Len(debouncer.calls))
         /\ ~debouncer.late =>
              debouncer.invoked = C39_Expected(Len(debouncer.calls))

\* A call, a second call more than the delay later that cleared the timer
\* of the first, which was still waiting to run, and the one invocation
\* there has been: of the second call's timer, run late.
C39_Witness ==
  /\ debouncer.made /\ debouncer.delay = 1
  /\ Len(debouncer.calls) = 2
  /\ debouncer.calls[2].at - debouncer.calls[1].at > debouncer.delay
  /\ debouncer.calls[1].args # debouncer.calls[2].args
  /\ debouncer.ran = <<2>>
  /\ Len(debouncer.invoked) = 1
  /\ debouncer.invoked[1].args = debouncer.calls[2].args
  /\ debouncer.invoked[1].at > debouncer.calls[2].at + debouncer.delay

\* Two calls less than the delay apart, with different arguments, and the
\* one invocation they led to, on time, with the second call's arguments.
C39_PromptWitness ==
  /\ debouncer.made /\ debouncer.delay = 2 /\ ~debouncer.late
  /\ Len(debouncer.calls) = 2
  /\ debouncer.calls[2].at - debouncer.calls[1].at = 1
  /\ debouncer.calls[1].args # debouncer.calls[2].args
  /\ debouncer.invoked = <<[at |-> debouncer.calls[2].at + 2,
                            args |-> debouncer.calls[2].args]>>

====
